---- MODULE Spec2Model ----
(***************************************************************************)
(* A model of the UUID7 generator (src/src/UUID7.cpp, UUID7.h), default    *)
(* build (UUID7_OPTIMIZE_SIZE not defined).                                *)
(*                                                                         *)
(* 64-bit values (clock readings, _last_ts_ms, _last_saved_ts_ms) are kept *)
(* at their full width as four 16-bit limbs, most significant first, so    *)
(* that the wrap of uint64_t additions and the 48-bit mask of the emitted  *)
(* timestamp are those of the code.  The identifier is 16 bytes, _b[0..15].*)
(*                                                                         *)
(* Thirteen specifications share the state and the operations:             *)
(*   Spec        one caller, the generator alone (no storage adapter)      *)
(*   SpecStore   one caller, generator and storage adapter, any call order *)
(*   SpecReboot  setup() and loop() of the persistence example, with power *)
(*               losses and restarts                                       *)
(*   SpecConc    two execution contexts calling generate() and data()      *)
(*   SpecLock    the same contexts, the guard of generate() as a lock that *)
(*               a context holds, load() and fromBytes() called unguarded  *)
(*   SpecGuard   the same contexts calling generate() only, either policy, *)
(*               a clock that may be unavailable                           *)
(*   SpecWait    one caller, a clock that moves forward, the WAIT loop     *)
(*               running for as long as the code keeps it running          *)
(*   SpecCodec   toString() and parseFromString() on identifiers and on    *)
(*               well-formed and damaged strings                           *)
(*   SpecEasy    one caller of the EasyUUID7 wrapper                       *)
(*   SpecMode    one caller, generate() and setVersion() in any order      *)
(*   SpecCarry   one caller, draws that make the increment carry           *)
(*   SpecImport  one caller, generate() and fromBytes() in any order       *)
(*   SpecSize    one caller making the same calls on a default build and   *)
(*               on a UUID7_OPTIMIZE_SIZE build, clocks below 2^48         *)
(***************************************************************************)
EXTENDS Integers, Sequences, FiniteSets, TLC

\* ------------------------------------------------------------ bounds
\* generate() attempts (calls and WAIT retries) explored per behaviour
MaxCalls == 4
\* crashes (power losses) explored per behaviour
MaxCrashes == 2
\* passes of one generate() call that its log counts (later ones count as
\* this many)
MaxPasses == 3

\* ------------------------------------------------- program constants
UUID7_REGRESSION_THRESHOLD_MS == 10000
UUID_VERSION_4 == 4
UUID_VERSION_7 == 7
DefaultSaveInterval == 10000

\* ----------------------------------------------------- uint64_t values
Limb == 256 * 256

U64Of(n) == <<0, 0, n \div Limb, n % Limb>>

Zero64 == U64Of(0)

\* x + y in uint64_t arithmetic (carry out of the top limb is dropped)
U64Add(x, y) ==
    LET s4 == x[4] + y[4]
        s3 == x[3] + y[3] + (s4 \div Limb)
        s2 == x[2] + y[2] + (s3 \div Limb)
        s1 == x[1] + y[1] + (s2 \div Limb)
    IN  <<s1 % Limb, s2 % Limb, s3 % Limb, s4 % Limb>>

\* x < y on uint64_t
U64Less(x, y) ==
    \E i \in 1..4 : x[i] < y[i] /\ \A j \in 1..(i - 1) : x[j] = y[j]

\* ts_copy &= 0x0000FFFFFFFFFFFF
Mask48(x) == <<0, x[2], x[3], x[4]>>

\* ------------------------------------------------------ 16-byte buffers
Idx == 0..15

ZeroBuf == [i \in Idx |-> 0]

\* memcmp(a, b, 16) < 0
BufLess(a, b) ==
    \E i \in Idx : a[i] < b[i] /\ \A j \in 0..(i - 1) : a[j] = b[j]

\* mutant: the health check left out
HealthOK_Omitted(buf) == TRUE

\* sum |= buf[i] over the 16 bytes; sum == 0 is the failed health check
HealthOK(buf) == \E i \in Idx : buf[i] # 0

\* mutant: the fallback forces the version nibble only
StampV4_NoVariant(buf) ==
    [buf EXCEPT ![6] = (buf[6] % 16) + 64]

\* _b[6] = (_b[6] & 0x0F) | 0x40;  _b[8] = (_b[8] & 0x3F) | 0x80;
StampV4(buf) ==
    [buf EXCEPT ![6] = (buf[6] % 16) + 64, ![8] = (buf[8] % 64) + 128]

\* mutant: the variant bits are not forced
StampVersion_NoVariant(buf, version) ==
    [buf EXCEPT ![6] = (buf[6] % 16) + ((version * 16) % 256)]

\* _b[6] = (_b[6] & 0x0F) | ((uint8_t)_version << 4);  _b[8] = (_b[8] & 0x3F) | 0x80;
StampVersion(buf, version) ==
    [buf EXCEPT ![6] = (buf[6] % 16) + ((version * 16) % 256),
                ![8] = (buf[8] % 64) + 128]

\* bool initialized = (_b[6] & 0xF0) == 0x70;
Initialized(buf) == (buf[6] \div 16) = 7

\* _b[0..5] = the low 48 bits of ts, big-endian
PackTs(buf, ts) ==
    LET m == Mask48(ts)
    IN  [i \in Idx |->
            CASE i = 0 -> m[2] \div 256
              [] i = 1 -> m[2] % 256
              [] i = 2 -> m[3] \div 256
              [] i = 3 -> m[3] % 256
              [] i = 4 -> m[4] \div 256
              [] i = 5 -> m[4] % 256
              [] OTHER -> buf[i]]

\* the 48-bit timestamp held in bytes 0..5 of an identifier, as a uint64_t
TsOf(buf) ==
    <<0, buf[0] * 256 + buf[1], buf[2] * 256 + buf[3], buf[4] * 256 + buf[5]>>

\* for (int i = 15; i >= 9; i--) if (++_b[i] != 0) return false;
RECURSIVE IncBytes(_, _)
IncBytes(buf, i) ==
    IF i < 9 THEN [b |-> buf, carry |-> TRUE]
    ELSE IF buf[i] # 255 THEN [b |-> [buf EXCEPT ![i] = buf[i] + 1], carry |-> FALSE]
    ELSE IncBytes([buf EXCEPT ![i] = 0], i - 1)

\* mutant: the carry out of the top nibble is not reported
NextRandom_NoOverflow(buf) == [b |-> buf, overflow |-> FALSE]

\* mutant: byte 15 is incremented and its carry dropped
NextRandom_NoCarry(buf) == [b |-> [buf EXCEPT ![15] = (@ + 1) % 256], overflow |-> FALSE]

\* mutant: the carry into byte 6 increments the whole byte, version nibble
\* included
NextRandom_Unmasked(buf) ==
    LET low == IncBytes(buf, 15)
        b8  == (low.b[8] % 64) + 1
        s8  == [low.b EXCEPT ![8] = (low.b[8] \div 64) * 64 + (b8 % 64)]
        b7  == (s8[7] + 1) % 256
        s7  == [s8 EXCEPT ![7] = b7]
        s6  == [s7 EXCEPT ![6] = (s7[6] + 1) % 256]
    IN  IF ~low.carry THEN [b |-> low.b, overflow |-> FALSE]
        ELSE IF b8 < 64 THEN [b |-> s8, overflow |-> FALSE]
        ELSE IF b7 # 0 THEN [b |-> s7, overflow |-> FALSE]
        ELSE [b |-> s6, overflow |-> s7[6] % 16 = 15]

\* _nextRandom(): increments the 74-bit field in place; TRUE means overflow
NextRandom(buf) ==
    LET low == IncBytes(buf, 15)
        b8  == (low.b[8] % 64) + 1
        s8  == [low.b EXCEPT ![8] = (low.b[8] \div 64) * 64 + (b8 % 64)]
        b7  == (s8[7] + 1) % 256
        s7  == [s8 EXCEPT ![7] = b7]
        b6  == (s7[6] % 16) + 1
        s6  == [s7 EXCEPT ![6] = (s7[6] \div 16) * 16 + (b6 % 16)]
    IN  IF ~low.carry THEN [b |-> low.b, overflow |-> FALSE]
        ELSE IF b8 < 64 THEN [b |-> s8, overflow |-> FALSE]
        ELSE IF b7 # 0 THEN [b |-> s7, overflow |-> FALSE]
        ELSE IF b6 < 16 THEN [b |-> s6, overflow |-> FALSE]
        ELSE [b |-> s6, overflow |-> TRUE]

\* mutant: a reading equal to _last_ts_ms counts as a new millisecond
Newer_OrEqual(now_ms, last_ts) == ~U64Less(now_ms, last_ts)

\* now_ms > _last_ts_ms   (line 415)
Newer(now_ms, last_ts) == U64Less(last_ts, now_ms)

\* now_ms + UUID7_REGRESSION_THRESHOLD_MS < _last_ts_ms   (uint64_t)
MajorRegression(now_ms, last_ts) ==
    U64Less(U64Add(now_ms, U64Of(UUID7_REGRESSION_THRESHOLD_MS)), last_ts)

\* mutant: a save is also due at last_saved_ts + save_interval_ms itself
SaveNeeded_OrEqual(success, save, now_ms, last_saved, interval) ==
    success /\ save /\ ~U64Less(now_ms, U64Add(last_saved, U64Of(interval)))

\* success && _save && (now_ms > _last_saved_ts_ms + _save_interval_ms)
SaveNeeded(success, save, now_ms, last_saved, interval) ==
    success /\ save /\ U64Less(U64Add(last_saved, U64Of(interval)), now_ms)

\* uint64_t target = saved_ts + _save_interval_ms;
LoadTarget(saved_ts, interval) == U64Add(saved_ts, U64Of(interval))

\* mutant: the fallback leaves the configured version alone
FallbackVersion_Transient(version) == version

\* _version = UUID_VERSION_4;  (line 408, on a major regression)
FallbackVersion(version) == UUID_VERSION_4

\* The critical section of generate(): from the clock read under the lock to
\* the version stamp.  branch names the path taken through it.
CriticalSection(b, version, last_ts, last_saved, save, interval, temp_rand, now_ms, overflow_state) ==
    IF now_ms = Zero64 THEN
        [outcome |-> "clock", branch |-> "clock", b |-> b, version |-> version,
         last_ts |-> last_ts, last_saved |-> last_saved,
         overflow_state |-> overflow_state,
         save_needed |-> FALSE, ts_to_save |-> Zero64]
    ELSE IF MajorRegression(now_ms, last_ts) THEN
        [outcome |-> "fallback", branch |-> "fallback", b |-> StampV4(temp_rand),
         version |-> FallbackVersion(version),
         last_ts |-> last_ts, last_saved |-> last_saved,
         overflow_state |-> overflow_state,
         save_needed |-> FALSE, ts_to_save |-> Zero64]
    ELSE
        LET newer   == Newer(now_ms, last_ts)
            now2    == IF newer THEN now_ms ELSE last_ts
            nr      == NextRandom(b)
            branch  == IF newer THEN "new"
                       ELSE IF overflow_state THEN "overflowed"
                       ELSE IF ~Initialized(b) THEN "seed"
                       ELSE IF nr.overflow THEN "overflow"
                       ELSE "increment"
            success == branch \in {"new", "seed", "increment"}
            b1      == IF branch \in {"new", "seed"} THEN temp_rand
                       ELSE IF branch \in {"increment", "overflow"} THEN nr.b
                       ELSE b
            b2      == IF success THEN PackTs(b1, now2) ELSE b1
            sn      == SaveNeeded(success, save, now2, last_saved, interval)
            b3      == IF success THEN StampVersion(b2, version) ELSE b2
        IN  [outcome |-> IF success THEN "success" ELSE "overflow",
             branch |-> branch, b |-> b3, version |-> version,
             last_ts |-> now2,
             last_saved |-> IF sn THEN now2 ELSE last_saved,
             overflow_state |-> IF branch = "new" THEN FALSE
                                ELSE IF branch = "overflow" THEN TRUE
                                ELSE overflow_state,
             save_needed |-> sn,
             ts_to_save |-> IF sn THEN now2 ELSE Zero64]

\* The critical section of generate() in a UUID7_OPTIMIZE_SIZE build (lines
\* 351-405, then the save decision and the stamp that both builds share):
\* the order of now_48 and _last_ts_48 picks the branch, a major regression
\* is looked for below _last_ts_48 only, and now_ms stays the clock reading
\* in every branch.
CriticalSectionSize(b, version, last_ts_48, last_saved, save, interval, temp_rand, now_ms, overflow_state) ==
    IF now_ms = Zero64 THEN
        [outcome |-> "clock", branch |-> "clock", b |-> b, version |-> version,
         last_ts |-> last_ts_48, last_saved |-> last_saved,
         overflow_state |-> overflow_state,
         save_needed |-> FALSE, ts_to_save |-> Zero64]
    ELSE
        LET now_48  == Mask48(now_ms)
            below   == U64Less(now_48, last_ts_48)
            above   == U64Less(last_ts_48, now_48)
            major_regression == below /\ MajorRegression(now_ms, last_ts_48)
            nr      == NextRandom(b)
            branch  == IF major_regression THEN "fallback"
                       ELSE IF above THEN "new"
                       ELSE IF overflow_state THEN "overflowed"
                       ELSE IF ~Initialized(b) THEN "seed"
                       ELSE IF nr.overflow THEN "overflow"
                       ELSE "increment"
            success == branch \in {"new", "seed", "increment"}
            last2   == IF branch = "new" THEN now_48 ELSE last_ts_48
            b1      == IF branch \in {"new", "seed"} THEN temp_rand
                       ELSE IF branch \in {"increment", "overflow"} THEN nr.b
                       ELSE b
            b2      == IF success THEN PackTs(b1, last2) ELSE b1
            sn      == SaveNeeded(success, save, now_ms, last_saved, interval)
            b3      == IF success THEN StampVersion(b2, version) ELSE b2
        IN  IF major_regression THEN
                [outcome |-> "fallback", branch |-> "fallback", b |-> StampV4(temp_rand),
                 version |-> FallbackVersion(version),
                 last_ts |-> last_ts_48, last_saved |-> last_saved,
                 overflow_state |-> overflow_state,
                 save_needed |-> FALSE, ts_to_save |-> Zero64]
            ELSE
                [outcome |-> IF success THEN "success" ELSE "overflow",
                 branch |-> branch, b |-> b3, version |-> version,
                 last_ts |-> last2,
                 last_saved |-> IF sn THEN now_ms ELSE last_saved,
                 overflow_state |-> IF branch = "new" THEN FALSE
                                    ELSE IF branch = "overflow" THEN TRUE
                                    ELSE overflow_state,
                 save_needed |-> sn,
                 ts_to_save |-> IF sn THEN now_ms ELSE Zero64]

\* ------------------------------------------------------------- inputs
\* entropy sources of the tests: failing_rng, overflow_rng, deterministic_rng
\* and the carry vector of test_full_overflow_cycle_detailed
failing_rng == ZeroBuf
overflow_rng == [i \in Idx |-> 255]
deterministic_rng == [i \in Idx |-> i]
carry_rng == [i \in Idx |-> IF i = 15 THEN 255 ELSE IF i = 14 THEN 254 ELSE 0]

RandValues == {failing_rng, overflow_rng, deterministic_rng, carry_rng}

\* clock readings: unavailable (0), 1000, 10000, 20000, 2^48 + 1000, 2^64 - 1
ClockValues ==
    {Zero64, U64Of(1000), U64Of(10000), U64Of(20000),
     <<1, 0, 0, 1000>>, <<Limb - 1, Limb - 1, Limb - 1, Limb - 1>>}

Intervals == {0, 1000}

StoredValues == {Zero64, U64Of(5000)}

Versions == {UUID_VERSION_4, UUID_VERSION_7}

Policies == {"FAIL_FAST", "WAIT"}

\* ------------------------------------------------------ text conversion
\* Characters are their ASCII codes; a char array is a sequence of codes, 0
\* the terminating NUL; a null pointer is the value Null, which is no array
\* of characters or bytes.
Null == <<-1>>

Dash == 45

\* static const char hexLower[] = "0123456789abcdef";
hexLower == <<48, 49, 50, 51, 52, 53, 54, 55, 56, 57, 97, 98, 99, 100, 101, 102>>

\* static const char hexUpper[] = "0123456789ABCDEF";
hexUpper == <<48, 49, 50, 51, 52, 53, 54, 55, 56, 57, 65, 66, 67, 68, 69, 70>>

\* mutant: no room counted for the terminating NUL
Required_NoTerminator(dashes) == IF dashes THEN 36 ELSE 32

\* size_t required = dashes ? 37 : 33;
Required(dashes) == IF dashes THEN 37 ELSE 33

\* mutant: a dash before every fourth byte
GroupStart_Fourth(i) == i \in {4, 8, 12}

\* i == 4 || i == 6 || i == 8 || i == 10
GroupStart(i) == i \in {4, 6, 8, 10}

\* the loop of toString() from byte i on, and the terminating NUL
RECURSIVE Encode(_, _, _, _)
Encode(b, hex, dashes, i) ==
    IF i = 16 THEN <<0>>
    ELSE (IF dashes /\ GroupStart(i) THEN <<Dash>> ELSE <<>>)
         \o <<hex[(b[i] \div 16) + 1], hex[(b[i] % 16) + 1]>>
         \o Encode(b, hex, dashes, i + 1)

\* bool UUID7::toString(char* out, size_t buflen, bool uppercase, bool dashes)
\* for the identifier b; buflen is the length of the array out points to
toString(b, out, uppercase, dashes) ==
    IF out = Null \/ Len(out) < Required(dashes) THEN [ret |-> FALSE, out |-> out]
    ELSE LET s == Encode(b, IF uppercase THEN hexUpper ELSE hexLower, dashes, 0)
         IN  [ret |-> TRUE,
              out |-> [k \in 1..Len(out) |-> IF k <= Len(s) THEN s[k] ELSE out[k]]]

\* mutant: capital letters are not digits
hexval_LowerOnly(c) ==
    IF c >= 48 /\ c <= 57 THEN c - 48
    ELSE IF c >= 97 /\ c <= 102 THEN 10 + c - 97
    ELSE -1

\* the lambda hexval of parseFromString()
hexval(c) ==
    IF c >= 48 /\ c <= 57 THEN c - 48
    ELSE IF c >= 97 /\ c <= 102 THEN 10 + c - 97
    ELSE IF c >= 65 /\ c <= 70 THEN 10 + c - 65
    ELSE -1

\* mutant: any character is taken for a separator
DashFound_Any(c) == TRUE

\* if (*p != '-') return false;
DashFound(c) == c = Dash

\* the loop of parseFromString() from byte i on, p the index of *p in str
RECURSIVE Decode(_, _, _, _, _)
Decode(str, dashed, out, i, p) ==
    IF i = 16 THEN [ret |-> TRUE, out |-> out]
    ELSE IF dashed /\ GroupStart(i) /\ ~DashFound(str[p]) THEN [ret |-> FALSE, out |-> out]
    ELSE LET q  == IF dashed /\ GroupStart(i) THEN p + 1 ELSE p
             hi == hexval(str[q])
             lo == hexval(str[q + 1])
         IN  IF hi < 0 \/ lo < 0 THEN [ret |-> FALSE, out |-> out]
             ELSE Decode(str, dashed, [out EXCEPT ![i] = hi * 16 + lo], i + 1, q + 2)

\* static bool UUID7::parseFromString(const char* str, uint8_t out[16]); str is
\* the string up to its NUL
parseFromString(str, out) ==
    IF str = Null \/ out = Null THEN [ret |-> FALSE, out |-> out]
    ELSE IF Len(str) = 36 THEN Decode(str, TRUE, out, 0, 1)
    ELSE IF Len(str) = 32 THEN Decode(str, FALSE, out, 0, 1)
    ELSE [ret |-> FALSE, out |-> out]

\* strlen() and the characters before the NUL of a char array that holds one
StrOf(buf) ==
    LET n == CHOOSE k \in 1..Len(buf) : buf[k] = 0 /\ \A j \in 1..(k - 1) : buf[j] # 0
    IN  SubSeq(buf, 1, n - 1)

\* -------------------------------------------------------------- state
VARIABLES
    _b,                 \* uint8_t _b[16]
    _version,           \* UUIDVersion _version
    _overflowPolicy,    \* UUIDOverflowPolicy _overflowPolicy
    _last_ts_ms,        \* uint64_t _last_ts_ms
    _load,              \* uuid_load_fn _load (TRUE: set)
    _save,              \* uuid_save_fn _save (TRUE: set)
    _save_interval_ms,  \* uint32_t _save_interval_ms
    _last_saved_ts_ms,  \* uint64_t _last_saved_ts_ms
    mock_time_val,      \* what the Clock Source returns when read
    mock_nvs_storage,   \* what the Persistence Adapter holds
    pc,                 \* where the caller is: "idle", or "retry" inside the WAIT loop
    overflow_state,     \* generate()'s local overflow_state while pc = "retry"
    calls,              \* generate() attempts made so far
    last,               \* what the last operation did (a log, see NoLog)
    entry,              \* while pc = "retry": the state generate() was entered in
    prevId,             \* the identifier of the latest successful generate(), or NoId
    steady,             \* V7 since construction, clock never went back, no fromBytes()/load()
    hist,               \* the restarts of the device (see NoHist)
    size,               \* the same calls made on a UUID7_OPTIMIZE_SIZE build (see NoSize)
    ctx,                \* the execution contexts sharing the instance (see NoCtx)
    _cacheBuffer,       \* char _cacheBuffer[37] of EasyUUID7
    easy_pc,            \* "spin" inside the loop of EasyUUID7::generate(), else "idle"
    codec               \* the latest text conversion call and its buffers (see NoCodec)

text == <<_cacheBuffer, easy_pc, codec>>

instance == <<_b, _version, _overflowPolicy, _last_ts_ms, _load, _save,
              _save_interval_ms, _last_saved_ts_ms>>

vars == <<_b, _version, _overflowPolicy, _last_ts_ms, _load, _save,
          _save_interval_ms, _last_saved_ts_ms, mock_time_val, mock_nvs_storage,
          pc, overflow_state, calls, last, entry, prevId, steady, hist, size, ctx, text>>

NoId == <<>>

\* the state a generate() call is entered in
Snapshot ==
    [b |-> _b, version |-> _version, last_ts |-> _last_ts_ms,
     last_saved |-> _last_saved_ts_ms]

\* the log of the latest generate() call, cleared by any other operation: its
\* result, the branch taken, the arguments of the save() calls made, how often
\* the clock was read, the lock taken and the entropy source called, and the
\* draw that went into the identifier (ZeroBuf when none did), what the
\* clock read in the latest pass (now) and in the pass that detected counter
\* overflow (overflow_at), Zero64 when there is none
NoLog ==
    [op |-> "none", ok |-> FALSE, branch |-> "none", saves |-> <<>>,
     clock_reads |-> 0, locks |-> 0, draws |-> 0, zero_draw |-> FALSE,
     rand |-> ZeroBuf, now |-> Zero64, overflow_at |-> Zero64]

\* the latest text conversion call: which one (op), what it returned (ret),
\* the destination array before (dest) and after (out) a toString(), the
\* string (str) and the 16 bytes written (parsed) of a parseFromString(),
\* the identifier the string was made from (of), the pointer toCharArray()
\* returned (got), the passes of UUID7::generate() an EasyUUID7::generate()
\* call has made so far (tries)
NoCodec ==
    [op |-> "none", ret |-> FALSE, dest |-> Null, out |-> Null, uppercase |-> FALSE,
     dashes |-> FALSE, str |-> Null, parsed |-> Null, of |-> Null, got |-> Null,
     tries |-> 0]

\* memset(_cacheBuffer, 0, sizeof(_cacheBuffer));
EmptyCache == [k \in 1..37 |-> 0]

\* where the device is in setup() ("fresh": constructed, "configured": after
\* setStorage(), "loaded": after load(), loop() running), how often it crashed,
\* how many generate() calls loop() made since the restart, and the greatest
\* timestamp of a V7 identifier emitted before the latest crash (before) and
\* since it (since), NoId when there is none; interval is the save interval
\* the sketch passes to setStorage() at every start
NoHist ==
    [boot |-> "fresh", crashes |-> 0, gens |-> 0, before |-> NoId, since |-> NoId,
     interval |-> DefaultSaveInterval]

\* a second device built with UUID7_OPTIMIZE_SIZE, as constructed: its _b,
\* _version, _last_ts_48[6] (as the number the six bytes spell),
\* _last_saved_ts_ms, what its Persistence Adapter holds, what its latest
\* generate() returned and the values that call passed to save()
NoSize ==
    [b |-> ZeroBuf, version |-> UUID_VERSION_7, last_ts_48 |-> Zero64,
     last_saved |-> Zero64, storage |-> Zero64, ok |-> FALSE, saves |-> <<>>]

\* the execution contexts that share the instance
Contexts == {1, 2}

\* a context outside generate(): pc is where it stands, temp_rand, overflow_state
\* and ts_to_save are the locals of its call, ok the value the call returned,
\* produced the identifier the call left in _b and got the bytes it read
\* through data(), holds whether it holds the lock of UUID7Guard
IdleCtx ==
    [pc |-> "idle", temp_rand |-> ZeroBuf, overflow_state |-> FALSE,
     ts_to_save |-> Zero64, ok |-> FALSE, produced |-> NoId, got |-> NoId,
     holds |-> FALSE]

\* no execution context is inside generate()
NoCtx == [c \in Contexts |-> IdleCtx]

\* UUID7::UUID7()
Constructed ==
    /\ _b = ZeroBuf
    /\ _version = UUID_VERSION_7
    /\ _overflowPolicy = "FAIL_FAST"
    /\ _last_ts_ms = Zero64
    /\ _load = FALSE
    /\ _save = FALSE
    /\ _save_interval_ms = DefaultSaveInterval
    /\ _last_saved_ts_ms = Zero64

\* a constructed instance, the mock clock at its initial 1000 and the
\* storage holding one of stored
Started(stored) ==
    /\ Constructed
    /\ mock_time_val = U64Of(1000)
    /\ mock_nvs_storage \in stored
    /\ pc = "idle"
    /\ overflow_state = FALSE
    /\ calls = 0
    /\ last = NoLog
    /\ entry = NoId
    /\ prevId = NoId
    /\ steady = TRUE
    /\ hist = NoHist
    /\ size = [NoSize EXCEPT !.storage = mock_nvs_storage]
    /\ ctx = NoCtx
    /\ _cacheBuffer = EmptyCache
    /\ easy_pc = "idle"
    /\ codec = NoCodec

Init == Started({Zero64})

\* ------------------------------------------------- sequential operations
\* mutant: overflow returns failure under either policy
Continues_Never(outcome, policy) == FALSE

\* lines 469-476: after an overflow the loop goes round under WAIT (continue)
\* and the call returns false under FAIL_FAST
Continues(outcome, policy) == outcome = "overflow" /\ policy = "WAIT"

\* One pass of generate()'s while (true) body, lines 333-480, for the draw r;
\* ovf is overflow_state on entry and log the log of the call so far.
Attempt(r, ovf, log) ==
    IF ~HealthOK(r) THEN
        /\ last' = [log EXCEPT !.op = "generate", !.ok = FALSE, !.branch = "rng",
                               !.draws = @ + 1, !.zero_draw = (r = ZeroBuf),
                               !.rand = ZeroBuf]
        /\ pc' = "idle"
        /\ overflow_state' = FALSE
        /\ entry' = NoId
        /\ UNCHANGED <<instance, mock_nvs_storage, prevId>>
    ELSE
        \E cs \in {CriticalSection(_b, _version, _last_ts_ms, _last_saved_ts_ms,
                                  _save, _save_interval_ms, r, mock_time_val, ovf)} :
        LET saved == cs.outcome = "success" /\ cs.save_needed /\ _save
            again == Continues(cs.outcome, _overflowPolicy)
        IN  /\ _b' = cs.b
            /\ _version' = cs.version
            /\ _last_ts_ms' = cs.last_ts
            /\ _last_saved_ts_ms' = cs.last_saved
            /\ mock_nvs_storage' = IF saved THEN cs.ts_to_save ELSE mock_nvs_storage
            /\ pc' = IF again THEN "retry" ELSE "idle"
            /\ overflow_state' = IF again THEN cs.overflow_state ELSE FALSE
            /\ entry' = IF ~again THEN NoId
                        ELSE IF pc = "retry" THEN entry ELSE Snapshot
            /\ last' = [log EXCEPT
                           !.op = "generate",
                           !.ok = cs.outcome \in {"success", "fallback"},
                           !.branch = cs.branch,
                           !.saves = IF saved THEN Append(@, cs.ts_to_save) ELSE @,
                           !.clock_reads = @ + 1,
                           !.locks = @ + 1,
                           !.draws = @ + 1,
                           !.zero_draw = (r = ZeroBuf),
                           !.rand = IF cs.branch \in {"fallback", "new", "seed"}
                                    THEN r ELSE ZeroBuf,
                           !.now = mock_time_val,
                           !.overflow_at = IF cs.branch = "overflow"
                                           THEN mock_time_val ELSE @]
            /\ prevId' = IF ~steady THEN NoId
                         ELSE IF cs.outcome \in {"success", "fallback"} THEN cs.b
                         ELSE prevId
            /\ UNCHANGED <<_overflowPolicy, _load, _save, _save_interval_ms>>

\* mutant: V4 mode goes through the clock read like V7 mode
GenerateV4_ThroughClock(r) == Attempt(r, FALSE, NoLog)

\* generate() in V4 mode, lines 319-328: the draw goes straight into _b
GenerateV4(r) ==
    /\ _b' = IF HealthOK(r) THEN StampV4(r) ELSE r
    /\ last' = [NoLog EXCEPT !.op = "generate", !.ok = HealthOK(r),
                             !.branch = IF HealthOK(r) THEN "v4" ELSE "rng",
                             !.draws = 1, !.zero_draw = (r = ZeroBuf), !.rand = r]
    /\ UNCHANGED <<_version, _overflowPolicy, _last_ts_ms, _load, _save,
                   _save_interval_ms, _last_saved_ts_ms, mock_nvs_storage,
                   pc, overflow_state, entry, prevId>>

\* bool UUID7::generate(): the call, up to its return or its first WAIT retry,
\* with an Entropy Source that returns one of draws
GenerateFrom(draws) ==
    /\ pc = "idle"
    /\ calls < MaxCalls
    /\ calls' = calls + 1
    /\ \E r \in draws :
           IF _version = UUID_VERSION_4 THEN GenerateV4(r)
           ELSE Attempt(r, FALSE, NoLog)
    /\ UNCHANGED <<mock_time_val, steady>>

\* the next pass of the WAIT loop (continue at line 476)
RetryFrom(draws) ==
    /\ pc = "retry"
    /\ calls < MaxCalls
    /\ calls' = calls + 1
    /\ \E r \in draws : Attempt(r, overflow_state, last)
    /\ UNCHANGED <<mock_time_val, steady>>

\* void UUID7::setVersion(UUIDVersion v)
SetVersion ==
    /\ pc = "idle"
    /\ \E v \in Versions :
           /\ v # _version
           /\ _version' = v
    /\ last' = NoLog
    /\ steady' = FALSE
    /\ prevId' = NoId
    /\ UNCHANGED <<_b, _overflowPolicy, _last_ts_ms, _load, _save,
                   _save_interval_ms, _last_saved_ts_ms, mock_time_val,
                   mock_nvs_storage, pc, overflow_state, calls, entry, hist, size, ctx, text>>

\* void setOverflowPolicy(UUIDOverflowPolicy policy)
SetOverflowPolicy ==
    /\ pc = "idle"
    /\ \E p \in Policies :
           /\ p # _overflowPolicy
           /\ _overflowPolicy' = p
    /\ last' = NoLog
    /\ UNCHANGED <<_b, _version, _last_ts_ms, _load, _save,
                   _save_interval_ms, _last_saved_ts_ms, mock_time_val,
                   mock_nvs_storage, pc, overflow_state, calls, entry, prevId, steady,
                   hist, size, ctx, text>>

\* void UUID7::setStorage(load_fn, save_fn, ctx, auto_save_interval_ms)
SetStorage(adapters, intervals) ==
    /\ pc = "idle"
    /\ \E fns \in adapters, i \in intervals :
           /\ <<fns[1], fns[2], i>> # <<_load, _save, _save_interval_ms>>
           /\ _load' = fns[1]
           /\ _save' = fns[2]
           /\ _save_interval_ms' = i
    /\ last' = NoLog
    /\ UNCHANGED <<_b, _version, _overflowPolicy, _last_ts_ms,
                   _last_saved_ts_ms, mock_time_val, mock_nvs_storage,
                   pc, overflow_state, calls, entry, prevId, steady>>

\* void UUID7::load()
Load ==
    /\ pc = "idle"
    /\ LET hit == _load /\ mock_nvs_storage # Zero64
       IN  /\ _last_saved_ts_ms' = IF hit THEN mock_nvs_storage ELSE _last_saved_ts_ms
           /\ _last_ts_ms' = IF hit THEN LoadTarget(mock_nvs_storage, _save_interval_ms)
                             ELSE _last_ts_ms
    /\ last' = [NoLog EXCEPT !.op = "load"]
    /\ steady' = FALSE
    /\ prevId' = NoId
    /\ UNCHANGED <<_b, _version, _overflowPolicy, _load, _save,
                   _save_interval_ms, mock_time_val, mock_nvs_storage,
                   pc, overflow_state, calls, entry>>

\* void fromBytes(const uint8_t bytes[16])
FromBytes ==
    /\ pc = "idle"
    /\ \E bytes \in RandValues :
           /\ bytes # _b
           /\ _b' = bytes
    /\ last' = NoLog
    /\ steady' = FALSE
    /\ prevId' = NoId
    /\ UNCHANGED <<_version, _overflowPolicy, _last_ts_ms, _load, _save,
                   _save_interval_ms, _last_saved_ts_ms, mock_time_val,
                   mock_nvs_storage, pc, overflow_state, calls, entry, hist, size, ctx, text>>

\* the Clock Source moves on to one of the readings of clocks (the tests set
\* mock_time_val between calls)
Tick(clocks) ==
    /\ \E t \in clocks :
           /\ t # mock_time_val
           /\ mock_time_val' = t
           /\ steady' = (steady /\ ~U64Less(t, mock_time_val))
           /\ prevId' = IF steady' THEN prevId ELSE NoId
    /\ last' = IF pc = "idle" THEN NoLog ELSE last
    /\ UNCHANGED <<instance, mock_nvs_storage, pc, overflow_state, calls, entry>>

\* ------------------------------------------- Spec: the generator alone
Generate == GenerateFrom(RandValues) /\ UNCHANGED <<hist, size, ctx, text>>

Retry == RetryFrom(RandValues) /\ UNCHANGED <<hist, size, ctx, text>>

ClockSet == Tick(ClockValues) /\ UNCHANGED <<hist, size, ctx, text>>

Next ==
    \/ Generate
    \/ Retry
    \/ SetVersion
    \/ SetOverflowPolicy
    \/ FromBytes
    \/ ClockSet

Spec == Init /\ [][Next]_vars

\* ------------------------- SpecStore: the generator and its storage
\* a caller that configures, loads and generates in any order, with the
\* clock readings of test_persistence and test_time_scenarios, one
\* reading above 2^48 and the largest one (test_max_timestamp_masking)
StoreDraws == {failing_rng, deterministic_rng}

StoreClocks ==
    {Zero64, U64Of(1000), U64Of(5000), U64Of(6001), U64Of(20000), <<1, 0, 0, 1000>>,
     <<Limb - 1, Limb - 1, Limb - 1, Limb - 1>>}

Adapters == {<<TRUE, TRUE>>, <<FALSE, FALSE>>}

StoreInit == Started(StoredValues)

StoreGenerate == GenerateFrom(StoreDraws) /\ UNCHANGED <<hist, size, ctx, text>>

StoreSetStorage == SetStorage(Adapters, Intervals) /\ UNCHANGED <<hist, size, ctx, text>>

StoreLoad == Load /\ UNCHANGED <<hist, size, ctx, text>>

StoreClock == Tick(StoreClocks) /\ UNCHANGED <<hist, size, ctx, text>>

NextStore ==
    \/ StoreGenerate
    \/ StoreSetStorage
    \/ StoreLoad
    \/ SetVersion
    \/ StoreClock

SpecStore == StoreInit /\ [][NextStore]_vars

\* --------------------- SpecReboot: setup(), loop() and power losses
\* The sketch of examples/2_Robust_Persistence: setup() calls setStorage()
\* and then load(), loop() calls generate(); the device may lose power at
\* any time and starts again with a fresh instance, the storage as it was
\* and the clock at any nonzero reading.
RebootDraws == {failing_rng, deterministic_rng}

RebootClocks == {U64Of(1000), U64Of(6000), U64Of(6001), U64Of(20000)}

\* the greater of two timestamps, NoId standing for none
MaxTs(a, b) ==
    IF a = NoId THEN b
    ELSE IF b = NoId THEN a
    ELSE IF U64Less(a, b) THEN b ELSE a

RebootInit == Started(StoredValues)

BootSetStorage ==
    /\ hist.boot = "fresh"
    /\ SetStorage({<<TRUE, TRUE>>},
                  IF hist.crashes = 0 THEN Intervals ELSE {hist.interval})
    /\ hist' = [hist EXCEPT !.boot = "configured", !.interval = _save_interval_ms']
    /\ UNCHANGED <<size, ctx, text>>

BootLoad ==
    /\ hist.boot = "configured"
    /\ Load
    /\ hist' = [hist EXCEPT !.boot = "loaded"]
    /\ UNCHANGED <<size, ctx, text>>

LoopGenerate ==
    /\ hist.boot = "loaded"
    /\ GenerateFrom(RebootDraws)
    /\ hist' = [hist EXCEPT
                    !.gens = @ + 1,
                    !.since = IF last'.ok /\ _b'[6] \div 16 = 7
                              THEN MaxTs(@, TsOf(_b')) ELSE @]
    /\ UNCHANGED <<size, ctx, text>>

RebootClock == Tick(RebootClocks) /\ UNCHANGED <<hist, size, ctx, text>>

\* power loss and restart: the instance is constructed anew (UUID7::UUID7())
Crash ==
    /\ hist.crashes < MaxCrashes
    /\ _b' = ZeroBuf
    /\ _version' = UUID_VERSION_7
    /\ _overflowPolicy' = "FAIL_FAST"
    /\ _last_ts_ms' = Zero64
    /\ _load' = FALSE
    /\ _save' = FALSE
    /\ _save_interval_ms' = DefaultSaveInterval
    /\ _last_saved_ts_ms' = Zero64
    /\ mock_time_val' \in RebootClocks
    /\ pc' = "idle"
    /\ overflow_state' = FALSE
    /\ last' = NoLog
    /\ entry' = NoId
    /\ prevId' = NoId
    /\ steady' = TRUE
    /\ hist' = [hist EXCEPT !.boot = "fresh", !.crashes = @ + 1, !.gens = 0,
                            !.before = MaxTs(@, hist.since), !.since = NoId]
    /\ UNCHANGED <<mock_nvs_storage, calls, size, ctx, text>>

NextReboot ==
    \/ BootSetStorage
    \/ BootLoad
    \/ LoopGenerate
    \/ RebootClock
    \/ Crash

SpecReboot == RebootInit /\ [][NextReboot]_vars

\* ------------- SpecConc: two execution contexts sharing one instance
\* Each context (a thread, or the main loop and an interrupt handler) calls
\* generate() and, after a successful return, reads the result through
\* data().  Build with an effective UUID7Guard (ESP32, AVR, native): the block
\* of lines 346-460 is one step.  What generate() does outside the guard (the
\* read of _version, the V4 path, the save() call) and data() are steps of
\* their own, interleaved with the other context's.
ConcDraws == {deterministic_rng, overflow_rng}

ConcClocks == {U64Of(1000), U64Of(20000)}

sequential == <<pc, overflow_state, last, entry, prevId, steady, hist, size, text>>

\* generate() up to the health check: line 319 reads _version; in V4 mode
\* rng() fills _b itself (line 321), in V7 mode it fills temp_rand (line 335)
\* and so does every further pass of the WAIT loop, which keeps overflow_state
Enter(c) ==
    /\ ctx[c].pc \in {"idle", "returned", "read", "retry"}
    /\ calls < MaxCalls
    /\ calls' = calls + 1
    /\ \E r \in ConcDraws :
           LET again == ctx[c].pc = "retry"
               local == [IdleCtx EXCEPT !.overflow_state =
                                            again /\ ctx[c].overflow_state,
                                        !.holds = ctx[c].holds]
           IN  IF ~again /\ _version = UUID_VERSION_4
               THEN /\ _b' = r
                    /\ ctx' = [ctx EXCEPT ![c] = [local EXCEPT !.pc = "v4check"]]
               ELSE /\ _b' = _b
                    /\ ctx' = [ctx EXCEPT ![c] =
                                   IF HealthOK(r)
                                   THEN [local EXCEPT !.pc = "drawn", !.temp_rand = r]
                                   ELSE [local EXCEPT !.pc = "returned"]]
    /\ UNCHANGED <<_version, _overflowPolicy, _last_ts_ms, _load, _save,
                   _save_interval_ms, _last_saved_ts_ms, mock_time_val,
                   mock_nvs_storage, sequential>>

\* the rest of the V4 path, lines 322-327: health check of _b and the stamp
CheckV4(c) ==
    /\ ctx[c].pc = "v4check"
    /\ _b' = IF HealthOK(_b) THEN StampV4(_b) ELSE _b
    /\ ctx' = [ctx EXCEPT ![c].pc = "returned", ![c].ok = HealthOK(_b),
                          ![c].produced = IF HealthOK(_b) THEN _b' ELSE NoId]
    /\ UNCHANGED <<_version, _overflowPolicy, _last_ts_ms, _load, _save,
                   _save_interval_ms, _last_saved_ts_ms, mock_time_val,
                   mock_nvs_storage, calls, sequential>>

\* mutant: the lock is given back only where the block is left at its end,
\* not where it is left by a return
Released_AtEndOnly(outcome) == outcome \notin {"clock", "fallback"}

\* mutant: the lock is kept over what follows the block (the save() call,
\* the next pass of the WAIT loop)
Released_AtReturn(outcome) == outcome \notin {"success", "overflow"}

\* ~UUID7Guard(), lines 49-59: lock is a local of the block of lines 346-460,
\* so its destructor runs however the block is left (return false at line
\* 349, return true at line 411, the closing brace at line 460)
Released(outcome) == TRUE

\* the guarded block, lines 346-460, and what follows it up to the return,
\* the save() call excepted, for a context standing at position at
Section(c, at) ==
    /\ ctx[c].pc = at
    /\ \E cs \in {CriticalSection(_b, _version, _last_ts_ms, _last_saved_ts_ms,
                                  _save, _save_interval_ms, ctx[c].temp_rand,
                                  mock_time_val, ctx[c].overflow_state)} :
           /\ _b' = cs.b
           /\ _version' = cs.version
           /\ _last_ts_ms' = cs.last_ts
           /\ _last_saved_ts_ms' = cs.last_saved
           /\ ctx' = [ctx EXCEPT ![c] =
                  CASE cs.outcome = "clock" ->
                         [@ EXCEPT !.pc = "returned", !.holds = ~Released(cs.outcome)]
                    [] cs.outcome = "fallback" ->
                         [@ EXCEPT !.pc = "returned", !.ok = TRUE, !.produced = cs.b,
                                   !.holds = ~Released(cs.outcome)]
                    [] cs.outcome = "success" ->
                         [@ EXCEPT !.pc = IF cs.save_needed THEN "saving" ELSE "returned",
                                   !.ok = ~cs.save_needed,
                                   !.ts_to_save = cs.ts_to_save,
                                   !.produced = cs.b,
                                   !.holds = ~Released(cs.outcome)]
                    [] OTHER ->
                         IF _overflowPolicy = "WAIT"
                         THEN [@ EXCEPT !.pc = "retry",
                                        !.overflow_state = cs.overflow_state,
                                        !.holds = ~Released(cs.outcome)]
                         ELSE [@ EXCEPT !.pc = "returned",
                                        !.holds = ~Released(cs.outcome)]]
    /\ UNCHANGED <<_overflowPolicy, _load, _save, _save_interval_ms,
                   mock_time_val, mock_nvs_storage, calls, sequential>>

\* the guard taken and released within one step
Locked(c) == Section(c, "drawn")

\* lines 462-467: save() after the guard is released, then return true
Save(c) ==
    /\ ctx[c].pc = "saving"
    /\ mock_nvs_storage' = ctx[c].ts_to_save
    /\ ctx' = [ctx EXCEPT ![c].pc = "returned", ![c].ok = TRUE]
    /\ UNCHANGED <<instance, mock_time_val, calls, sequential>>

\* the caller reads the 16 bytes through data() after a successful return
ReadData(c) ==
    /\ ctx[c].pc = "returned"
    /\ ctx[c].ok
    /\ ctx' = [ctx EXCEPT ![c].pc = "read", ![c].got = _b]
    /\ UNCHANGED <<instance, mock_time_val, mock_nvs_storage, calls, sequential>>

ConcEnter == \E c \in Contexts : Enter(c)

ConcCheckV4 == \E c \in Contexts : CheckV4(c)

ConcLocked == \E c \in Contexts : Locked(c)

ConcSave == \E c \in Contexts : Save(c)

ConcReadData == \E c \in Contexts : ReadData(c)

ConcClock == Tick(ConcClocks) /\ UNCHANGED <<hist, size, ctx, text>>

\* setup, before any context calls generate()
ConcSetStorage ==
    /\ calls = 0
    /\ SetStorage({<<TRUE, TRUE>>}, Intervals)
    /\ UNCHANGED <<hist, size, ctx, text>>

NextConc ==
    \/ ConcSetStorage
    \/ ConcEnter
    \/ ConcCheckV4
    \/ ConcLocked
    \/ ConcSave
    \/ ConcReadData
    \/ ConcClock

SpecConc == Init /\ [][NextConc]_vars

\* ------------- SpecLock: the guard of generate() as a lock that is held
\* The contexts of SpecConc, with the guarded block in two steps: the
\* constructor of UUID7Guard (line 347), which a context passes only while no
\* other context is inside the block, and the block itself up to the
\* destructor.  A context may also call load() or fromBytes(), which take no
\* guard, and the version may be set before the first generate().
LockBytes == {carry_rng}

\* UUID7Guard lock;  (mutex, spinlock or interrupt mask taken)
Acquire(c) ==
    /\ ctx[c].pc = "drawn"
    /\ \A d \in Contexts : ~ctx[d].holds
    /\ ctx' = [ctx EXCEPT ![c].pc = "locked", ![c].holds = TRUE]
    /\ UNCHANGED <<instance, mock_time_val, mock_nvs_storage, calls, sequential>>

\* void UUID7::load(), called by context c
LoadBy(c) ==
    /\ ctx[c].pc \in {"idle", "returned"}
    /\ LET hit == _load /\ mock_nvs_storage # Zero64
       IN  /\ _last_saved_ts_ms' = IF hit THEN mock_nvs_storage ELSE _last_saved_ts_ms
           /\ _last_ts_ms' = IF hit THEN LoadTarget(mock_nvs_storage, _save_interval_ms)
                             ELSE _last_ts_ms
    /\ ctx' = [ctx EXCEPT ![c] = [IdleCtx EXCEPT !.pc = "returned",
                                                 !.holds = ctx[c].holds]]
    /\ UNCHANGED <<_b, _version, _overflowPolicy, _load, _save, _save_interval_ms,
                   mock_time_val, mock_nvs_storage, calls, sequential>>

\* void fromBytes(const uint8_t bytes[16]), called by context c
FromBytesBy(c) ==
    /\ ctx[c].pc \in {"idle", "returned"}
    /\ \E bytes \in LockBytes : _b' = bytes
    /\ ctx' = [ctx EXCEPT ![c] = [IdleCtx EXCEPT !.pc = "returned",
                                                 !.holds = ctx[c].holds]]
    /\ UNCHANGED <<_version, _overflowPolicy, _last_ts_ms, _load, _save,
                   _save_interval_ms, _last_saved_ts_ms, mock_time_val,
                   mock_nvs_storage, calls, sequential>>

LockAcquire == \E c \in Contexts : Acquire(c)

LockSection == \E c \in Contexts : Section(c, "locked")

LockLoad == \E c \in Contexts : LoadBy(c)

LockFromBytes == \E c \in Contexts : FromBytesBy(c)

\* setup, before any context calls generate()
LockSetVersion ==
    /\ calls = 0
    /\ SetVersion

NextLock ==
    \/ ConcSetStorage
    \/ LockSetVersion
    \/ ConcEnter
    \/ ConcCheckV4
    \/ LockAcquire
    \/ LockSection
    \/ ConcSave
    \/ LockLoad
    \/ LockFromBytes
    \/ ConcClock

SpecLock == Started(StoredValues) /\ [][NextLock]_vars

\* ------------- SpecGuard: the lock on every way out of the guarded block
\* The contexts of SpecLock calling generate() only, under either overflow
\* policy (chosen before the first call), with a clock that may be
\* unavailable (reading 0), so that the block is left by each of its returns.
GuardClocks == {Zero64, U64Of(1000), U64Of(20000)}

GuardClock == Tick(GuardClocks) /\ UNCHANGED <<hist, size, ctx, text>>

\* setup, before any context calls generate()
GuardSetOverflowPolicy ==
    /\ calls = 0
    /\ SetOverflowPolicy

NextGuard ==
    \/ ConcSetStorage
    \/ GuardSetOverflowPolicy
    \/ ConcEnter
    \/ ConcCheckV4
    \/ LockAcquire
    \/ LockSection
    \/ ConcSave
    \/ GuardClock

SpecGuard == Init /\ [][NextGuard]_vars

\* ------------------------ SpecWait: the WAIT loop under a forward clock
\* a caller with a healthy Entropy Source (overflow_rng fills the 74-bit
\* field at once) and a millisecond clock that only moves forward, as
\* mock_now_ms_overflow does; the loop at lines 333-480 keeps running, so a
\* pass that can be made is made (weak fairness of WaitRetry)
WaitDraws == {overflow_rng, deterministic_rng}

\* clock readings: 1000, 5000 (test_overflow_policy_wait), 5001, 20000
WaitClocks == {U64Of(1000), U64Of(5000), U64Of(5001), U64Of(20000)}

\* the log with its counters held below MaxPasses
Capped(log) ==
    [log EXCEPT !.draws = IF @ < MaxPasses THEN @ ELSE MaxPasses - 1,
                !.clock_reads = IF @ < MaxPasses THEN @ ELSE MaxPasses - 1,
                !.locks = IF @ < MaxPasses THEN @ ELSE MaxPasses - 1]

WaitGenerate == GenerateFrom(WaitDraws) /\ UNCHANGED <<hist, size, ctx, text>>

\* the next pass of the WAIT loop (yield(); continue; at lines 473-476),
\* as often as the loop goes round
WaitRetry ==
    /\ pc = "retry"
    /\ \E r \in WaitDraws : Attempt(r, overflow_state, Capped(last))
    /\ UNCHANGED <<mock_time_val, steady, calls, hist, size, ctx, text>>

WaitClock ==
    /\ Tick({t \in WaitClocks : U64Less(mock_time_val, t)})
    /\ UNCHANGED <<hist, size, ctx, text>>

NextWait ==
    \/ WaitGenerate
    \/ WaitRetry
    \/ WaitClock
    \/ SetOverflowPolicy

SpecWait == Init /\ [][NextWait]_vars /\ WF_vars(WaitRetry)

\* ---------------------- SpecCodec: toString() and parseFromString()
\* the identifier of test_from_bytes_and_formatting
raw ==
    [i \in Idx |->
        <<1, 141, 150, 14, 43, 119, 127, 141, 156, 52, 86, 120, 154, 188, 222, 240>>[i + 1]]

CodecValues == RandValues \cup {raw}

\* destinations of toString(): a null pointer and arrays of 32, 33, 36, 37
\* and 40 characters, filled with '#'
Dests == {Null} \cup {[k \in 1..n |-> 35] : n \in {32, 33, 36, 37, 40}}

\* the characters put into a string to damage it: '-', the neighbours of the
\* three digit ranges ('/', ':', '@', 'G', '`', 'g'), their ends ('0', '9',
\* 'A', 'F', 'a', 'f'), 'X' and ' '
DamageChars == {45, 47, 58, 64, 71, 96, 103, 48, 57, 65, 70, 97, 102, 88, 32}

\* where a character is replaced: the first and last characters, the four
\* separator positions of the dashed form and their neighbours
DamagePositions == {1, 8, 9, 10, 14, 19, 24, 25, 32, 36}

\* toupper() / tolower() over a string
ToUpper(str) == [k \in 1..Len(str) |-> IF str[k] >= 97 /\ str[k] <= 122 THEN str[k] - 32 ELSE str[k]]

ToLower(str) == [k \in 1..Len(str) |-> IF str[k] >= 65 /\ str[k] <= 90 THEN str[k] + 32 ELSE str[k]]

\* "too-short"
TooShort == <<116, 111, 111, 45, 115, 104, 111, 114, 116>>

\* the strings handed to parseFromString(): a string toString() made, the
\* same in the other case, with one character replaced, shortened or
\* lengthened by one character, cut to 32 characters, and the strings of the
\* tests that are no identifiers at all
StringsFrom(str) ==
    {str, ToUpper(str), ToLower(str), TooShort, <<>>, Null,
     SubSeq(str, 1, Len(str) - 1), Append(str, 48), SubSeq(str, 1, 32),
     SubSeq(str, 1, 32) \o <<48, 48, 48, 48>>}
    \cup {[str EXCEPT ![k] = c] : k \in DamagePositions \cap (1..Len(str)), c \in DamageChars}

\* g.fromBytes(raw)
CodecFromBytes ==
    /\ pc = "idle"
    /\ \E bytes \in CodecValues :
           /\ bytes # _b
           /\ _b' = bytes
    /\ last' = NoLog
    /\ steady' = FALSE
    /\ prevId' = NoId
    /\ codec' = NoCodec
    /\ UNCHANGED <<_version, _overflowPolicy, _last_ts_ms, _load, _save,
                   _save_interval_ms, _last_saved_ts_ms, mock_time_val,
                   mock_nvs_storage, pc, overflow_state, calls, entry, hist, size, ctx,
                   _cacheBuffer, easy_pc>>

\* g.toString(out, buflen, uppercase, dashes)
ToStringCall ==
    /\ pc = "idle"
    /\ \E dest \in Dests, uppercase \in BOOLEAN, dashes \in BOOLEAN :
       \E r \in {toString(_b, dest, uppercase, dashes)} :
           codec' = [NoCodec EXCEPT !.op = "toString", !.ret = r.ret, !.dest = dest,
                                    !.out = r.out, !.uppercase = uppercase,
                                    !.dashes = dashes, !.of = _b]
    /\ UNCHANGED <<instance, mock_time_val, mock_nvs_storage, pc, overflow_state,
                   calls, last, entry, prevId, steady, hist, size, ctx, _cacheBuffer, easy_pc>>

\* UUID7::parseFromString(str, out) on a string derived from the one the
\* latest toString() made, out pointing to 16 zero bytes or being null
ParseCall ==
    /\ pc = "idle"
    /\ codec.op = "toString"
    /\ codec.ret
    /\ \E str \in StringsFrom(StrOf(codec.out)), out \in {ZeroBuf, Null} :
       \E r \in {parseFromString(str, out)} :
           codec' = [NoCodec EXCEPT !.op = "parse", !.ret = r.ret, !.str = str,
                                    !.dest = out, !.parsed = r.out, !.of = codec.of]
    /\ UNCHANGED <<instance, mock_time_val, mock_nvs_storage, pc, overflow_state,
                   calls, last, entry, prevId, steady, hist, size, ctx, _cacheBuffer, easy_pc>>

NextCodec ==
    \/ CodecFromBytes
    \/ ToStringCall
    \/ ParseCall

SpecCodec == Init /\ [][NextCodec]_vars

\* ------------------------------------- SpecEasy: the EasyUUID7 wrapper
\* an Entropy Source that may fail and a clock that may be unavailable (0),
\* so that UUID7::generate() fails and the wrapper goes round its loop
EasyDraws == {failing_rng, overflow_rng, deterministic_rng}

EasyClocks == {Zero64, U64Of(1000), U64Of(1001), U64Of(20000)}

\* mutant: the cache is left as it was
EasyCache_Stale(b, cache) == cache

\* UUID7::toString(_cacheBuffer, sizeof(_cacheBuffer));
EasyCache(b, cache) == toString(b, cache, FALSE, TRUE).out

\* EasyUUID7::generate() after a pass of UUID7::generate(): back into
\* while (!UUID7::generate()) yield(); unless the call returned true, and
\* then the cache update and return true
AfterPass ==
    LET tries == (IF easy_pc = "spin" THEN codec.tries ELSE 0) + 1
    IN  IF pc' = "idle" /\ last'.ok
        THEN /\ _cacheBuffer' = EasyCache(_b', _cacheBuffer)
             /\ easy_pc' = "idle"
             /\ codec' = [NoCodec EXCEPT !.op = "generate", !.ret = TRUE, !.tries = tries]
        ELSE /\ _cacheBuffer' = _cacheBuffer
             /\ easy_pc' = "spin"
             /\ codec' = [NoCodec EXCEPT !.op = "generate", !.tries = tries]

\* bool EasyUUID7::generate(), up to its return or to the first failed or
\* waiting UUID7::generate()
EasyGenerate ==
    /\ easy_pc = "idle"
    /\ GenerateFrom(EasyDraws)
    /\ AfterPass
    /\ UNCHANGED <<hist, size, ctx>>

\* the next UUID7::generate() call of the loop
EasySpin ==
    /\ easy_pc = "spin"
    /\ GenerateFrom(EasyDraws)
    /\ AfterPass
    /\ UNCHANGED <<hist, size, ctx>>

\* the next pass of a UUID7::generate() call that waits under WAIT
EasyRetry ==
    /\ easy_pc = "spin"
    /\ RetryFrom(EasyDraws)
    /\ AfterPass
    /\ UNCHANGED <<hist, size, ctx>>

\* void EasyUUID7::fromBytes(const uint8_t bytes[16])
EasyFromBytes ==
    /\ easy_pc = "idle"
    /\ pc = "idle"
    /\ \E bytes \in CodecValues :
           /\ bytes # _b
           /\ _b' = bytes
    /\ _cacheBuffer' = EasyCache(_b', _cacheBuffer)
    /\ codec' = [NoCodec EXCEPT !.op = "fromBytes"]
    /\ last' = NoLog
    /\ steady' = FALSE
    /\ prevId' = NoId
    /\ UNCHANGED <<_version, _overflowPolicy, _last_ts_ms, _load, _save,
                   _save_interval_ms, _last_saved_ts_ms, mock_time_val,
                   mock_nvs_storage, pc, overflow_state, calls, entry, hist, size, ctx,
                   easy_pc>>

\* char* EasyUUID7::toCharArray(): generate() first when the cache is empty
EasyToCharArray ==
    /\ easy_pc = "idle"
    /\ pc = "idle"
    /\ IF _cacheBuffer[1] = 0
       THEN /\ GenerateFrom(EasyDraws)
            /\ AfterPass
            /\ UNCHANGED <<hist, size, ctx>>
       ELSE /\ codec' = [NoCodec EXCEPT !.op = "toCharArray", !.got = _cacheBuffer]
            /\ UNCHANGED <<instance, mock_time_val, mock_nvs_storage, pc,
                           overflow_state, calls, last, entry, prevId, steady, hist, size,
                           ctx, _cacheBuffer, easy_pc>>

\* String EasyUUID7::toString(bool uppercase, bool dashes), char buf[37]
EasyToString ==
    /\ easy_pc = "idle"
    /\ pc = "idle"
    /\ \E uppercase \in BOOLEAN, dashes \in BOOLEAN :
       \E r \in {toString(_b, EmptyCache, uppercase, dashes)} :
           codec' = [NoCodec EXCEPT !.op = "toString", !.ret = r.ret, !.dest = EmptyCache,
                                    !.out = r.out, !.uppercase = uppercase,
                                    !.dashes = dashes, !.of = _b]
    /\ UNCHANGED <<instance, mock_time_val, mock_nvs_storage, pc, overflow_state,
                   calls, last, entry, prevId, steady, hist, size, ctx, _cacheBuffer, easy_pc>>

EasySetVersion == easy_pc = "idle" /\ SetVersion

EasySetOverflowPolicy == easy_pc = "idle" /\ SetOverflowPolicy

EasyClock == Tick(EasyClocks) /\ UNCHANGED <<hist, size, ctx, text>>

NextEasy ==
    \/ EasyGenerate
    \/ EasySpin
    \/ EasyRetry
    \/ EasyFromBytes
    \/ EasyToCharArray
    \/ EasyToString
    \/ EasySetVersion
    \/ EasySetOverflowPolicy
    \/ EasyClock

SpecEasy == Init /\ [][NextEasy]_vars

\* ------------------- SpecMode: generate() and setVersion() interleaved
\* a caller that only generates and switches the version, with a healthy
\* Entropy Source; no load() and no fromBytes(), so last_ts is set by the
\* new-millisecond branch alone, which emits a V7 identifier for it
ModeDraws == {overflow_rng, deterministic_rng, carry_rng}

ModeClocks == {U64Of(1000), U64Of(1001), U64Of(20000)}

ModeGenerate == GenerateFrom(ModeDraws) /\ UNCHANGED <<hist, size, ctx, text>>

ModeClock == Tick(ModeClocks) /\ UNCHANGED <<hist, size, ctx, text>>

NextMode ==
    \/ ModeGenerate
    \/ SetVersion
    \/ ModeClock

SpecMode == Init /\ [][NextMode]_vars

\* ---------------------- SpecCarry: increments that carry between bytes
\* the draw of test_nextRandom_mask_preservation (the 74-bit field all ones)
almost_full == [i \in Idx |-> IF i = 6 THEN 15 ELSE IF i = 8 THEN 63 ELSE 255]

\* draws whose field is one increment away from a carry into byte 8, into
\* byte 7 and into the low nibble of byte 6
carry8_rng == [i \in Idx |-> IF i >= 9 THEN 255 ELSE 0]

carry7_rng == [i \in Idx |-> IF i >= 8 THEN 255 ELSE 0]

carry6_rng == [i \in Idx |-> IF i >= 7 THEN 255 ELSE 0]

CarryDraws == {deterministic_rng, carry_rng, carry8_rng, carry7_rng, carry6_rng, almost_full}

CarryClocks == {U64Of(1000), U64Of(1001)}

CarryGenerate == GenerateFrom(CarryDraws) /\ UNCHANGED <<hist, size, ctx, text>>

CarryRetry == RetryFrom(CarryDraws) /\ UNCHANGED <<hist, size, ctx, text>>

CarryClock == Tick(CarryClocks) /\ UNCHANGED <<hist, size, ctx, text>>

NextCarry ==
    \/ CarryGenerate
    \/ CarryRetry
    \/ SetOverflowPolicy
    \/ CarryClock

SpecCarry == Init /\ [][NextCarry]_vars

\* ------------- SpecImport: one caller, generate() and fromBytes()
\* fromBytes() between generate() calls, with the bookkeeping of the latest
\* generated identifier (prevId) and of the clock (steady) kept across it.
\* The bytes imported: a buffer that is no Version-7 identifier, and a
\* Version-7 identifier of an earlier millisecond.
imported_v7 == [i \in Idx |-> IF i = 6 THEN 112 ELSE IF i = 8 THEN 128 ELSE IF i = 15 THEN 1 ELSE 0]

ImportBytes == {carry_rng, imported_v7}

ImportDraws == {deterministic_rng, carry_rng}

ImportClocks == {U64Of(1000), U64Of(20000)}

ImportGenerate == GenerateFrom(ImportDraws) /\ UNCHANGED <<hist, size, ctx, text>>

\* void fromBytes(const uint8_t bytes[16])
ImportFromBytes ==
    /\ pc = "idle"
    /\ \E bytes \in ImportBytes : _b' = bytes
    /\ last' = [NoLog EXCEPT !.op = "fromBytes"]
    /\ UNCHANGED <<_version, _overflowPolicy, _last_ts_ms, _load, _save,
                   _save_interval_ms, _last_saved_ts_ms, mock_time_val,
                   mock_nvs_storage, pc, overflow_state, calls, entry, prevId,
                   steady, hist, size, ctx, text>>

ImportClock == Tick(ImportClocks) /\ UNCHANGED <<hist, size, ctx, text>>

NextImport ==
    \/ ImportGenerate
    \/ ImportFromBytes
    \/ ImportClock

SpecImport == Init /\ [][NextImport]_vars

\* ------------- SpecSize: a default build and a UUID7_OPTIMIZE_SIZE build
\* Two devices, one built either way, get the same calls, the same draws and
\* the same clock readings, all below 2^48; their adapters start with the
\* same value.  The variables hold the default build, size the other one.
SizeClocks ==
    {Zero64, U64Of(1000), U64Of(15000), U64Of(20000),
     <<0, Limb - 1, Limb - 1, Limb - 1>>}

\* bool UUID7::generate() of the UUID7_OPTIMIZE_SIZE build under FAIL_FAST,
\* with the draw r
GenerateSize(s, r) ==
    IF s.version = UUID_VERSION_4 THEN
        [s EXCEPT !.b = IF HealthOK(r) THEN StampV4(r) ELSE r,
                  !.ok = HealthOK(r), !.saves = <<>>]
    ELSE IF ~HealthOK(r) THEN
        [s EXCEPT !.ok = FALSE, !.saves = <<>>]
    ELSE
        LET cs == CriticalSectionSize(s.b, s.version, s.last_ts_48, s.last_saved,
                                      _save, _save_interval_ms, r, mock_time_val, FALSE)
            saved == cs.outcome = "success" /\ cs.save_needed /\ _save
        IN  [b |-> cs.b, version |-> cs.version, last_ts_48 |-> cs.last_ts,
             last_saved |-> cs.last_saved,
             storage |-> IF saved THEN cs.ts_to_save ELSE s.storage,
             ok |-> cs.outcome \in {"success", "fallback"},
             saves |-> IF saved THEN <<cs.ts_to_save>> ELSE <<>>]

\* void UUID7::load() of the UUID7_OPTIMIZE_SIZE build (lines 136-142): the
\* low 48 bits of target go into _last_ts_48
LoadSize(s) ==
    IF _load /\ s.storage # Zero64
    THEN [s EXCEPT !.last_saved = s.storage,
                   !.last_ts_48 = Mask48(LoadTarget(s.storage, _save_interval_ms))]
    ELSE s

SizeGenerate ==
    /\ \E r \in StoreDraws :
           /\ GenerateFrom({r})
           /\ size' = GenerateSize(size, r)
    /\ UNCHANGED <<hist, ctx, text>>

SizeSetStorage ==
    /\ SetStorage(Adapters, Intervals)
    /\ UNCHANGED <<hist, size, ctx, text>>

SizeLoad ==
    /\ Load
    /\ size' = LoadSize(size)
    /\ UNCHANGED <<hist, ctx, text>>

SizeClock == Tick(SizeClocks) /\ UNCHANGED <<hist, size, ctx, text>>

NextSize ==
    \/ SizeGenerate
    \/ SizeSetStorage
    \/ SizeLoad
    \/ SizeClock

SpecSize == Started(StoredValues) /\ [][NextSize]_vars

\* ------------------------------------------------------------ claims
\* the 74-bit random field of an identifier: low nibble of byte 6, byte 7,
\* low 6 bits of byte 8, bytes 9..15
RandField(buf) ==
    <<buf[6] % 16, buf[7], buf[8] % 64, buf[9], buf[10], buf[11], buf[12],
      buf[13], buf[14], buf[15]>>

\* the 74-bit random field with every bit set
FullField == <<15, 255, 63, 255, 255, 255, 255, 255, 255, 255>>

\* now is not more than regression_threshold_ms below last_ts, in unbounded
\* integer arithmetic (a sum that leaves 64 bits is above every last_ts)
WithinThreshold(now, last_ts) ==
    LET sum == U64Add(now, U64Of(UUID7_REGRESSION_THRESHOLD_MS))
    IN  U64Less(sum, now) \/ ~U64Less(sum, last_ts)

\* a step that is one pass of generate()
GenerateStep == calls' = calls + 1

\* a step in which a generate() call returns
Returns == GenerateStep /\ pc' = "idle"

\* C1: in V7 mode with a clock that never went back, each successful
\* generate() emits an identifier strictly greater (memcmp over 16 bytes)
\* than the one emitted by the latest earlier successful generate(), failed
\* calls in between included.  Stated for clock readings below 2^48, the
\* ones the 48-bit timestamp field holds unchanged.
C1_Monotonic ==
    [][(/\ Returns
        /\ last'.ok
        /\ steady
        /\ _version = UUID_VERSION_7
        /\ mock_time_val[1] = 0
        /\ prevId # NoId)
       => BufLess(prevId, _b')]_vars

\* C2: after every successful generate() the identifier has variant bits 10
\* and a version nibble that is 4 or 7 and is the version the instance then
\* reports (getVersion()).
C2_VersionVariant ==
    (last.op = "generate" /\ last.ok)
        => /\ _b[8] \div 64 = 2
           /\ _b[6] \div 16 \in {4, 7}
           /\ _b[6] \div 16 = _version

C2_Witness ==
    /\ last.op = "generate"
    /\ last.ok
    /\ last.branch = "increment"
    /\ _b[6] \div 16 = 7

\* C7: a pass of generate() whose entropy draw is all zero returns failure,
\* in V4 and V7 mode alike, and did so before taking the lock and reading
\* the clock (each earlier pass of the call took the lock and read the
\* clock once).
C7_ZeroEntropyFails ==
    (last.op = "generate" /\ last.zero_draw)
        => /\ ~last.ok
           /\ pc = "idle"
           /\ last.locks = last.draws - 1
           /\ last.clock_reads = last.draws - 1

C7_Witness ==
    /\ last.op = "generate"
    /\ last.zero_draw
    /\ _version = UUID_VERSION_7
    /\ calls > 1

\* C8: in V7 mode a generate() call that reads 0 from the clock returns
\* failure, and last_ts, the random field in the buffer, last_saved_ts and
\* the version are those the call was entered with; save() is not invoked.
C8_ClockFailureFrame ==
    [][(/\ GenerateStep
        /\ _version = UUID_VERSION_7
        /\ mock_time_val = Zero64
        /\ last'.clock_reads > 0
        /\ last'.clock_reads # (IF pc = "retry" THEN last.clock_reads ELSE 0))
       => LET before == IF pc = "retry" THEN entry ELSE Snapshot
          IN  /\ ~last'.ok
              /\ pc' = "idle"
              /\ _last_ts_ms' = before.last_ts
              /\ RandField(_b') = RandField(before.b)
              /\ _last_saved_ts_ms' = before.last_saved
              /\ _version' = before.version
              /\ last'.saves = <<>>]_vars

\* C6: a successful V7 generate() invokes save() exactly when an adapter is
\* configured and the emitted timestamp (bytes 0..5 of the identifier) is
\* greater than last_saved_ts + save_interval_ms; it then invokes save() once
\* with the emitted timestamp, which becomes last_saved_ts; every other
\* generate() call invokes no save() and leaves last_saved_ts as it was.
C6_SaveIffDue ==
    [][GenerateStep
       => LET emitted == TsOf(_b')
              sum     == U64Add(_last_saved_ts_ms, U64Of(_save_interval_ms))
              due     == /\ last'.ok
                         /\ _version = UUID_VERSION_7
                         /\ _b'[6] \div 16 = 7
                         /\ _save
                         /\ ~U64Less(sum, _last_saved_ts_ms)
                         /\ U64Less(sum, emitted)
          IN  IF due
              THEN /\ last'.saves = <<emitted>>
                   /\ mock_nvs_storage' = emitted
                   /\ _last_saved_ts_ms' = emitted
              ELSE /\ last'.saves = <<>>
                   /\ mock_nvs_storage' = mock_nvs_storage
                   /\ _last_saved_ts_ms' = _last_saved_ts_ms]_vars

\* C9: in V4 mode generate() never reads the clock, succeeds exactly when
\* the entropy draw is healthy whatever the clock would return (0 included),
\* leaves last_ts and last_saved_ts as they were and invokes no save().
C9_V4NoClock ==
    [][(GenerateStep /\ _version = UUID_VERSION_4)
       => /\ last'.clock_reads = 0
          /\ last'.ok = (\E i \in Idx : last'.rand[i] # 0)
          /\ _last_ts_ms' = _last_ts_ms
          /\ _last_saved_ts_ms' = _last_saved_ts_ms
          /\ last'.saves = <<>>
          /\ mock_nvs_storage' = mock_nvs_storage]_vars

C9_Witness ==
    /\ last.op = "generate"
    /\ last.ok
    /\ last.branch = "v4"
    /\ mock_time_val = Zero64
    /\ _save
    /\ _last_ts_ms # Zero64

\* C10: in V7 mode a generate() that reads a nonzero clock value now with
\* now + regression_threshold_ms < last_ts returns success and leaves in the
\* buffer the 16 bytes drawn for the call with the high nibble of byte 6
\* forced to 4 and the top two bits of byte 8 forced to 10 (no timestamp is
\* packed); save() is not invoked.
C10_MajorRegressionFallback ==
    [][(/\ GenerateStep
        /\ _version = UUID_VERSION_7
        /\ last'.clock_reads = 1
        /\ mock_time_val # Zero64
        /\ ~U64Less(U64Add(mock_time_val, U64Of(UUID7_REGRESSION_THRESHOLD_MS)),
                    mock_time_val)
        /\ U64Less(U64Add(mock_time_val, U64Of(UUID7_REGRESSION_THRESHOLD_MS)),
                   _last_ts_ms))
       => /\ last'.ok
          /\ _b'[6] = (last'.rand[6] % 16) + 64
          /\ _b'[8] = (last'.rand[8] % 64) + 128
          /\ \A i \in Idx \ {6, 8} : _b'[i] = last'.rand[i]
          /\ last'.saves = <<>>
          /\ mock_nvs_storage' = mock_nvs_storage]_vars

C10_Witness ==
    /\ last.op = "generate"
    /\ last.ok
    /\ last.branch = "fallback"
    /\ _save
    /\ _b[6] \div 16 = 4

\* C4: with setStorage() and load() called at every start before any
\* generate(), every V7 identifier emitted after a restart carries a
\* timestamp strictly greater than that of every V7 identifier emitted
\* before the crash.  Stated for a positive save interval.
C4_RebootOrder ==
    (/\ last.op = "generate"
     /\ last.ok
     /\ _save_interval_ms # 0
     /\ _b[6] \div 16 = 7
     /\ hist.before # NoId)
        => U64Less(hist.before, TsOf(_b))

\* C5: after setStorage(.., i) and load() on a fresh instance whose storage
\* holds s > 0, the first generate(), made with a nonzero clock reading not
\* greater than s + i, succeeds and emits a V7 identifier with timestamp
\* s + i without invoking save().  Stated for calls whose entropy draw
\* passes the health check.
C5_SafetyJump ==
    [][(/\ GenerateStep
        /\ hist.boot = "loaded"
        /\ hist.gens = 0
        /\ mock_nvs_storage # Zero64
        /\ mock_time_val # Zero64
        /\ ~U64Less(U64Add(mock_nvs_storage, U64Of(_save_interval_ms)), mock_time_val)
        /\ last'.branch # "rng")
       => /\ last'.ok
          /\ _b'[6] \div 16 = 7
          /\ TsOf(_b') = U64Add(mock_nvs_storage, U64Of(_save_interval_ms))
          /\ last'.saves = <<>>]_vars

\* C3: a context that reads data() after its own generate() returned success
\* obtains the identifier its own call produced, and two contexts whose calls
\* produced different identifiers do not obtain the same bytes.
C3_OwnIdentifier ==
    \A c \in Contexts :
        ctx[c].pc = "read"
            => /\ ctx[c].got = ctx[c].produced
               /\ \A d \in Contexts \ {c} :
                      (ctx[d].pc = "read" /\ ctx[d].produced # ctx[c].produced)
                          => ctx[d].got # ctx[c].got

\* C11: the major-regression fallback affects only the call that detects it:
\* after that call getVersion() still reports V7, and a later successful
\* generate() whose clock reading is not a major regression emits a V7
\* identifier.  (No setVersion() call is made in SpecReboot.)
C11_FallbackTransient ==
    [][GenerateStep
       => /\ last'.branch = "fallback" => _version' = UUID_VERSION_7
          /\ (/\ last'.ok
              /\ mock_time_val # Zero64
              /\ ~U64Less(U64Add(mock_time_val, U64Of(UUID7_REGRESSION_THRESHOLD_MS)),
                          _last_ts_ms))
                 => _b'[6] \div 16 = 7]_vars

\* C11 as the code has it: after the call that takes the fallback
\* getVersion() reports V4, and from then on generate() stays in V4 mode:
\* it does not read the clock, leaves the version at V4 and every
\* identifier it emits is a Version-4 one, whatever the clock reads.
C11_FallbackSticky ==
    [][GenerateStep
       => /\ last'.branch = "fallback" => _version' = UUID_VERSION_4
          /\ _version = UUID_VERSION_4
                 => /\ _version' = UUID_VERSION_4
                    /\ last'.clock_reads = 0
                    /\ last'.ok => _b'[6] \div 16 = 4]_vars

C11_Witness ==
    /\ last.op = "generate"
    /\ last.ok
    /\ last.branch = "v4"
    /\ _version = UUID_VERSION_4
    /\ hist.boot = "loaded"
    /\ mock_time_val # Zero64
    /\ ~U64Less(U64Add(mock_time_val, U64Of(UUID7_REGRESSION_THRESHOLD_MS)), _last_ts_ms)

\* C12: a successful generate() in V7 mode whose clock reading is nonzero,
\* not greater than last_ts and not more than regression_threshold_ms below
\* it emits (the low 48 bits of) last_ts as its timestamp and leaves last_ts
\* unchanged.
C12_SameMillisecond ==
    [][(/\ GenerateStep
        /\ _version = UUID_VERSION_7
        /\ last'.ok
        /\ mock_time_val # Zero64
        /\ ~U64Less(_last_ts_ms, mock_time_val)
        /\ WithinThreshold(mock_time_val, _last_ts_ms))
       => /\ TsOf(_b') = Mask48(_last_ts_ms)
          /\ _last_ts_ms' = _last_ts_ms]_vars

\* C13: under FAIL_FAST a generate() call that reaches the same-millisecond
\* increment (V7 mode, nonzero clock reading not greater than last_ts and not
\* taken for a major regression, a V7 identifier in the buffer) while the
\* 74-bit field is all ones returns failure after a single pass, without a
\* second draw; and the increment reports overflow only when the field was
\* all ones.
C13_OverflowFailFast ==
    [][GenerateStep
       => /\ (/\ _version = UUID_VERSION_7
               /\ _overflowPolicy = "FAIL_FAST"
               /\ pc = "idle"
               /\ mock_time_val # Zero64
               /\ ~U64Less(_last_ts_ms, mock_time_val)
               /\ ~MajorRegression(mock_time_val, _last_ts_ms)
               /\ Initialized(_b)
               /\ RandField(_b) = FullField)
                  => /\ ~last'.ok
                     /\ pc' = "idle"
                     /\ last'.draws = 1
          /\ last'.branch = "overflow" => RandField(_b) = FullField]_vars

C13_Witness ==
    /\ last.op = "generate"
    /\ last.branch = "overflow"
    /\ ~last.ok
    /\ last.draws = 1
    /\ _overflowPolicy = "FAIL_FAST"
    /\ pc = "idle"

\* a pass of the WAIT loop after the first one
RetryPass == pc = "retry" /\ last' # last

\* the clock reads later than the millisecond the generator is at
ClockAhead == U64Less(_last_ts_ms, mock_time_val)

\* C14: under WAIT, with a healthy Entropy Source and a nonzero clock, a
\* generate() call that hits counter overflow does not return but goes round
\* the loop; every further pass draws entropy and reads the clock anew; the
\* call never returns failure; once the clock reads later than last_ts the
\* call eventually returns success, and the identifier it returns carries the
\* fresh draw and a timestamp greater than the millisecond of the overflow.
C14_WaitRecovers ==
    /\ [][(/\ GenerateStep
            /\ _overflowPolicy = "WAIT"
            /\ last'.branch = "overflow")
           => pc' = "retry" /\ _last_ts_ms' = _last_ts_ms]_vars
    /\ [][RetryPass
           => /\ last.draws < MaxPasses
                  => /\ last'.draws = last.draws + 1
                     /\ last'.clock_reads = last.clock_reads + 1
              /\ pc' = "idle"
                  => /\ last'.ok
                     /\ ClockAhead
                     /\ _last_ts_ms' = mock_time_val
                     /\ U64Less(_last_ts_ms, TsOf(_b'))
                     /\ RandField(_b') = RandField(last'.rand)
              /\ pc' = "retry" => ~ClockAhead /\ _b' = _b]_vars
    /\ (pc = "retry" /\ ClockAhead) ~> (pc = "idle" /\ last.ok)

C14_Witness ==
    /\ pc = "idle"
    /\ _overflowPolicy = "WAIT"
    /\ last.op = "generate"
    /\ last.ok
    /\ last.branch = "new"
    /\ last.draws >= 2
    /\ last.clock_reads >= 2

\* the identifier of a new millisecond t made from the draw r: bytes 0-5 the
\* low 48 bits of t, most significant byte first, byte 6 = 0x70 | (r[6] & 0x0F),
\* byte 8 = 0x80 | (r[8] & 0x3F), every other byte that of r
NewMillisecondId(t, r) ==
    [i \in Idx |->
        CASE i = 0 -> t[2] \div 256
          [] i = 1 -> t[2] % 256
          [] i = 2 -> t[3] \div 256
          [] i = 3 -> t[3] % 256
          [] i = 4 -> t[4] \div 256
          [] i = 5 -> t[4] % 256
          [] i = 6 -> 112 + (r[6] % 16)
          [] i = 8 -> 128 + (r[8] % 64)
          [] OTHER -> r[i]]

\* C15: a V7 generate() pass that draws healthy bytes r and reads a nonzero
\* clock value t greater than last_ts succeeds, sets last_ts to t and emits
\* NewMillisecondId(t, r), for every 64-bit t.
C15_NewMillisecond ==
    [][(/\ GenerateStep
        /\ _version = UUID_VERSION_7
        /\ ~last'.zero_draw
        /\ last'.branch # "rng"
        /\ mock_time_val # Zero64
        /\ U64Less(_last_ts_ms, mock_time_val))
       => /\ last'.ok
          /\ _last_ts_ms' = mock_time_val
          /\ _b' = NewMillisecondId(mock_time_val, last'.rand)]_vars

\* a step that is a toString() call / a parseFromString() call
ToStringStep == codec'.op = "toString" /\ codec' # codec

ParseStep == codec'.op = "parse" /\ codec' # codec

\* C16: parseFromString() of the string toString() made of the identifier x,
\* for either value of uppercase and of dashes, succeeds and writes exactly x;
\* and parseFromString() gives the same result and the same 16 bytes for a
\* string as for the string with its letters in the other case.
C16_RoundTrip ==
    [][(ParseStep /\ codec'.str # Null /\ codec'.dest # Null)
       => /\ codec'.str = StrOf(codec.out)
              => codec'.ret /\ codec'.parsed = _b /\ codec'.parsed = codec.of
          /\ \A other \in {ToUpper(codec'.str), ToLower(codec'.str)} :
                 parseFromString(other, codec'.dest) = [ret |-> codec'.ret, out |-> codec'.parsed]]_vars

C16_Witness ==
    /\ codec.op = "parse"
    /\ codec.ret
    /\ codec.of = raw
    /\ codec.parsed = raw
    /\ Len(codec.str) = 36
    /\ codec.str[4] = 68
    /\ _b = raw

\* '0'..'9', 'A'..'F', 'a'..'f'
HexChar(c) == c \in (48..57) \cup (65..70) \cup (97..102)

\* the positions (from 1) of the separators in the 36-character form
DashPositions == {9, 14, 19, 24}

\* the positions of the digits in a string of 32 or 36 characters
DigitPositions(str) == IF Len(str) = 36 THEN (1..36) \ DashPositions ELSE 1..Len(str)

\* C17: parseFromString() of a string into a 16-byte array returns failure
\* when the length of the string is neither 32 nor 36, when a digit position
\* holds a character that is no hex digit, and when a string of 36 characters
\* has another character than '-' at one of the positions 8, 13, 18, 23
\* (counted from 0); it returns success for every other string of 32 or 36
\* characters.
C17_ParseFailures ==
    [][(ParseStep /\ codec'.str # Null /\ codec'.dest # Null)
       => LET str    == codec'.str
              length == Len(str) \notin {32, 36}
              digit  == \E k \in DigitPositions(str) : ~HexChar(str[k])
              dash   == Len(str) = 36 /\ \E k \in DashPositions : str[k] # Dash
          IN  /\ length => ~codec'.ret
              /\ (~length /\ digit) => ~codec'.ret
              /\ dash => ~codec'.ret
              /\ (~length /\ ~digit /\ ~dash) => codec'.ret]_vars

C17_Witness ==
    /\ codec.op = "parse"
    /\ ~codec.ret
    /\ codec.dest # Null
    /\ codec.str # Null
    /\ Len(codec.str) = 36
    /\ codec.str[9] # Dash
    /\ \A k \in DigitPositions(codec.str) : HexChar(codec.str[k])

\* C18: toString() returns failure exactly when the destination is null or
\* shorter than 37 characters with dashes, 33 without; a failed call leaves
\* the destination as it was; every other call returns success.
C18_ToStringFailure ==
    [][ToStringStep
       => LET short == \/ codec'.dest = Null
                       \/ Len(codec'.dest) < (IF codec'.dashes THEN 37 ELSE 33)
          IN  /\ codec'.ret <=> ~short
              /\ ~codec'.ret => codec'.out = codec'.dest]_vars

C18_Witness ==
    /\ codec.op = "toString"
    /\ ~codec.ret
    /\ codec.dashes
    /\ codec.dest # Null
    /\ Len(codec.dest) = 36
    /\ codec.out = codec.dest

\* the hex digit of the value n (0..15)
Digit(n, uppercase) == IF n < 10 THEN 48 + n ELSE (IF uppercase THEN 55 ELSE 87) + n

\* the 32 hex digits of the 16 bytes of b in order, high nibble first
Digits(b, uppercase) ==
    [k \in 1..32 |->
        Digit(IF k % 2 = 1 THEN b[(k - 1) \div 2] \div 16 ELSE b[(k - 1) \div 2] % 16,
              uppercase)]

\* the digits in groups of 8-4-4-4-12 with '-' between the groups
Grouped(d) ==
    SubSeq(d, 1, 8) \o <<Dash>> \o SubSeq(d, 9, 12) \o <<Dash>> \o SubSeq(d, 13, 16)
    \o <<Dash>> \o SubSeq(d, 17, 20) \o <<Dash>> \o SubSeq(d, 21, 32)

\* C19: a successful toString() writes the 16 bytes of the identifier in
\* order as two hex digits each, lowercase or uppercase as requested, in
\* groups of 8-4-4-4-12 separated by '-' (36 characters) with dashes and
\* without separators (32 characters) otherwise, then a NUL, and nothing
\* after it; the identifier is not modified.
C19_ToStringFormat ==
    [][(ToStringStep /\ codec'.ret)
       => LET d    == Digits(_b, codec'.uppercase)
              want == IF codec'.dashes THEN Grouped(d) ELSE d
              n    == IF codec'.dashes THEN 36 ELSE 32
          IN  /\ Len(want) = n
              /\ SubSeq(codec'.out, 1, n) = want
              /\ codec'.out[n + 1] = 0
              /\ \A k \in (n + 2)..Len(codec'.dest) : codec'.out[k] = codec'.dest[k]
              /\ Len(codec'.out) = Len(codec'.dest)
              /\ _b' = _b]_vars

C19_Witness ==
    /\ codec.op = "toString"
    /\ codec.ret
    /\ codec.uppercase
    /\ codec.dashes
    /\ codec.of = raw
    /\ Len(codec.dest) = 40
    /\ StrOf(codec.out) = Grouped(Digits(raw, TRUE))
    /\ codec.out[4] = 68
    /\ codec.out[9] = Dash
    /\ codec.out[38] = 35

\* the cache holds the 36-character lowercase dashed text of the identifier
\* b, which is what toCharArray() then returns and what toString() makes
CacheIs(cache, b) ==
    /\ cache[1] # 0
    /\ Len(StrOf(cache)) = 36
    /\ StrOf(cache) = Grouped(Digits(b, FALSE))
    /\ StrOf(cache) = StrOf(toString(b, EmptyCache, FALSE, TRUE).out)

\* C20: EasyUUID7::generate() does not return after a pass of
\* UUID7::generate() that failed or waits; it returns, with true, in the
\* step in which a UUID7::generate() call succeeds; when it or
\* EasyUUID7::fromBytes() returns the cache holds the 36-character lowercase
\* dashed text of the 16 identifier bytes, toCharArray() returns the cache as
\* it is, and the text equals toString().
C20_EasyWrapper ==
    [][/\ (GenerateStep /\ easy_pc' = "spin") => ~(pc' = "idle" /\ last'.ok)
       /\ (GenerateStep /\ easy_pc' = "idle")
              => /\ pc' = "idle"
                 /\ last'.ok
                 /\ codec'.ret
                 /\ CacheIs(_cacheBuffer', _b')
       /\ (codec'.op = "fromBytes" /\ codec' # codec) => CacheIs(_cacheBuffer', _b')
       /\ (codec'.op = "toCharArray" /\ codec' # codec)
              => /\ codec'.got = _cacheBuffer
                 /\ codec.op \in {"generate", "fromBytes"} => CacheIs(codec'.got, _b)]_vars

C20_Witness ==
    /\ codec.op = "generate"
    /\ codec.ret
    /\ codec.tries >= 2
    /\ easy_pc = "idle"
    /\ last.ok
    /\ CacheIs(_cacheBuffer, _b)

\* C21: a generate() call that takes the major-regression fallback (the
\* clock reads more than regression_threshold_ms below last_ts) leaves
\* last_ts, the 74-bit random field held in the identifier buffer and
\* last_saved_ts as they were.
C21_FallbackFrame ==
    [][(/\ GenerateStep
        /\ last'.branch = "fallback"
        /\ ~WithinThreshold(mock_time_val, _last_ts_ms))
       => /\ _last_ts_ms' = _last_ts_ms
          /\ _last_saved_ts_ms' = _last_saved_ts_ms
          /\ RandField(_b') = RandField(_b)]_vars

\* C22: under FAIL_FAST, the generate() call that follows one that failed
\* with counter overflow, made in V7 mode with a healthy draw while the clock
\* still reads no later than last_ts, fails with counter overflow too.
C22_OverflowPersists ==
    [][(/\ GenerateStep
        /\ _overflowPolicy = "FAIL_FAST"
        /\ _version = UUID_VERSION_7
        /\ last.op = "generate"
        /\ last.branch = "overflow"
        /\ ~last.ok
        /\ last'.branch # "rng"
        /\ mock_time_val # Zero64
        /\ ~U64Less(_last_ts_ms, mock_time_val))
       => /\ ~last'.ok
          /\ last'.branch \in {"overflow", "overflowed"}]_vars

\* a V7 identifier has been emitted for the current last_ts: without load()
\* last_ts leaves 0 only in the new-millisecond branch (line 416), which
\* emits one
EmittedForLastTs == _last_ts_ms # Zero64

\* C23: a V7 generate() pass in the same-or-earlier-millisecond branch draws
\* the random field afresh only when no V7 identifier has been emitted for
\* the current last_ts; after one has been emitted for it the pass
\* increments the field (or reports its overflow), whatever generate() and
\* setVersion() calls were made in between.
C23_SeedOnlyOnce ==
    [][(/\ GenerateStep
        /\ _version = UUID_VERSION_7
        /\ last'.branch \notin {"rng", "clock", "fallback"}
        /\ ~U64Less(_last_ts_ms, mock_time_val)
        /\ EmittedForLastTs)
       => /\ last'.branch \in {"increment", "overflow", "overflowed"}
          /\ last'.ok => RandField(_b') = RandField(NextRandom(_b).b)]_vars

\* the number of values of the k-th digit of RandField: 16 for the low nibble
\* of byte 6, 64 for the low 6 bits of byte 8, 256 for a whole byte
Radix(k) == IF k = 1 THEN 16 ELSE IF k = 3 THEN 64 ELSE 256

\* the field f, read as a 74-bit number with its most significant digit
\* first, plus 1 (modulo 2^74)
FieldPlusOne(f) ==
    LET below == {k \in 1..10 : f[k] # Radix(k) - 1}
    IN  IF below = {} THEN [k \in 1..10 |-> 0]
        ELSE LET m == CHOOSE k \in below : \A j \in below : j <= k
             IN  [k \in 1..10 |-> IF k < m THEN f[k] ELSE IF k = m THEN f[k] + 1 ELSE 0]

\* C24: a V7 generate() pass that succeeds in the same-or-earlier-millisecond
\* branch on a buffer that holds a V7 identifier emits that identifier's
\* 74-bit field plus exactly 1: the carry runs from byte 15 up to byte 9,
\* into the low 6 bits of byte 8, into byte 7 and into the low nibble of
\* byte 6.
C24_IncrementByOne ==
    [][(/\ GenerateStep
        /\ _version = UUID_VERSION_7
        /\ mock_time_val # Zero64
        /\ ~U64Less(_last_ts_ms, mock_time_val)
        /\ ~MajorRegression(mock_time_val, _last_ts_ms)
        /\ Initialized(_b)
        /\ last'.ok)
       => /\ last'.branch = "increment"
          /\ RandField(_b') = FieldPlusOne(RandField(_b))
          /\ RandField(_b) # FullField]_vars

C24_Witness ==
    /\ last.op = "generate"
    /\ last.branch = "increment"
    /\ last.ok
    /\ _b[6] = 113
    /\ _b[7] = 0
    /\ _b[8] = 128
    /\ _b[15] = 0

\* C25: the same-millisecond increment, the one that wraps the field from
\* all ones to zero included, leaves the high nibble of byte 6 and the top
\* two bits of byte 8 as they were.
C25_MaskPreserved ==
    [][(GenerateStep /\ last'.branch \in {"increment", "overflow"})
       => /\ _b'[6] \div 16 = _b[6] \div 16
          /\ _b'[8] \div 64 = _b[8] \div 64
          /\ NextRandom(_b).b[6] \div 16 = _b[6] \div 16
          /\ NextRandom(_b).b[8] \div 64 = _b[8] \div 64
          /\ Initialized(_b')
          /\ last'.branch = "overflow"
                 => RandField(_b) = FullField /\ RandField(_b') = FieldPlusOne(FullField)]_vars

C25_Witness ==
    /\ last.op = "generate"
    /\ last.branch = "overflow"
    /\ ~last.ok
    /\ _b[6] = 112
    /\ _b[7] = 0
    /\ _b[8] = 128

\* C26: under WAIT, after a generate() call detected counter overflow at the
\* clock reading c, the first later pass of the call with a healthy draw in
\* which the clock reads c + 1 or more returns success.
C26_OneUnit ==
    [][(/\ GenerateStep
        /\ pc = "retry"
        /\ last'.branch # "rng"
        /\ U64Less(last.overflow_at, mock_time_val))
       => pc' = "idle" /\ last'.ok]_vars

\* C26, amended: under WAIT the loop lasts until the clock reads later than
\* last_ts: a later pass with a healthy draw and a nonzero clock reading
\* returns exactly when the reading is greater than last_ts (or is taken for
\* a major regression), and then with success; a reading greater than
\* last_ts that is not taken for a major regression becomes the new last_ts;
\* the reading c + 1 ends the loop when the overflow was detected at
\* c = last_ts.
C26_UntilPastLastTs ==
    [][(/\ GenerateStep
        /\ pc = "retry"
        /\ last'.branch # "rng"
        /\ mock_time_val # Zero64)
       => /\ pc' = "idle" <=> (ClockAhead \/ MajorRegression(mock_time_val, _last_ts_ms))
          /\ pc' = "idle" => last'.ok
          /\ (ClockAhead /\ ~MajorRegression(mock_time_val, _last_ts_ms))
                 => _last_ts_ms' = mock_time_val
          /\ (last.overflow_at = _last_ts_ms /\ U64Less(last.overflow_at, mock_time_val))
                 => pc' = "idle" /\ last'.ok]_vars

C26_Witness ==
    /\ pc = "retry"
    /\ last.branch = "overflowed"
    /\ last.draws >= 2
    /\ U64Less(last.overflow_at, last.now)
    /\ ~U64Less(_last_ts_ms, last.now)
    /\ ~MajorRegression(last.now, _last_ts_ms)

\* a step that is a load() call (a load() right after a load() changes
\* nothing at all)
LoadStep == last'.op = "load" /\ last.op # "load"

\* load() found nothing to restore: no adapter, or the adapter returned 0
NothingStored == ~_load \/ mock_nvs_storage = Zero64

\* C27: a load() with no adapter configured, or whose adapter returns 0,
\* leaves last_ts, last_saved_ts and the identifier buffer as they were, and
\* the V7 generate() that follows it with healthy entropy and a clock
\* reading t > last_ts succeeds with the low 48 bits of t in bytes 0-5 and
\* last_ts = t.
C27_LoadNothing ==
    [][/\ (LoadStep /\ NothingStored)
            => UNCHANGED <<_last_ts_ms, _last_saved_ts_ms, _b>>
       /\ (/\ GenerateStep
           /\ last.op = "load"
           /\ NothingStored
           /\ _version = UUID_VERSION_7
           /\ last'.branch # "rng"
           /\ U64Less(_last_ts_ms, mock_time_val))
            => /\ last'.ok
               /\ TsOf(_b') = Mask48(mock_time_val)
               /\ _last_ts_ms' = mock_time_val]_vars

\* C28: from one call to the next last_ts never decreases, whatever the call
\* (generate(), load(), setStorage(), setVersion()), unless the call is a
\* generate() that takes the major-regression fallback.
C28_LastTsNeverDecreases ==
    [][\/ GenerateStep /\ last'.branch = "fallback"
       \/ ~U64Less(_last_ts_ms', _last_ts_ms)]_vars

\* a generate() call in V7 mode, with an adapter whose save interval is 0,
\* that returns success with a Version-7 identifier
SavesAlways ==
    /\ GenerateStep
    /\ _version = UUID_VERSION_7
    /\ _save
    /\ _save_interval_ms = 0
    /\ last'.ok
    /\ last'.branch # "fallback"

WritesState ==
    <<_last_ts_ms', RandField(_b'), _last_saved_ts_ms'>>
        # <<_last_ts_ms, RandField(_b), _last_saved_ts_ms>>

\* C30: every step that writes the Monotonic State is taken by a context
\* that holds the generator's lock, and no context writes it while another
\* context is inside the guarded block.
C30_WritesUnderLock ==
    [][WritesState
       => /\ \E c \in Contexts : ctx[c].pc = "locked" /\ ctx'[c] # ctx[c]
          /\ \A d \in Contexts : ctx[d].pc = "locked" => ctx'[d] # ctx[d]]_vars

\* C31: a context that leaves the guarded block, by whichever way (return on
\* clock failure, return on the major-regression fallback, overflow under
\* either policy, success), no longer holds the lock, stands outside the
\* block, and no other context holds the lock either, so that a context
\* waiting at the guard can take it.
C31_LockReleased ==
    [][\A c \in Contexts :
           (ctx[c].pc = "locked" /\ ctx'[c].pc # "locked")
               => /\ ctx'[c].pc \in {"returned", "saving", "retry"}
                  /\ \A d \in Contexts : ~ctx'[d].holds]_vars

\* a context holds the lock after another left the block through the return
\* of the major-regression fallback
C31_Witness ==
    \E c \in Contexts : \E d \in Contexts \ {c} :
        /\ ctx[c].pc = "returned"
        /\ ctx[c].ok
        /\ ctx[c].produced # NoId
        /\ ctx[c].produced[6] \div 16 = 4
        /\ ctx[d].pc = "locked"
        /\ ctx[d].holds

\* context c calls the Entropy Source: the step of generate() that draws
DrawStep(c) == calls' = calls + 1 /\ ctx'[c] # ctx[c]

\* context c calls save()
SaveStep(c) == ctx[c].pc = "saving" /\ ctx'[c].pc = "returned"

\* C32: a context that calls the Entropy Source (first pass, V4 path or a
\* further pass of the WAIT loop) or save() does not hold the lock, before
\* or after the call.
C32_NoLockOutside ==
    [][\A c \in Contexts :
           (DrawStep(c) \/ SaveStep(c)) => ~ctx[c].holds /\ ~ctx'[c].holds]_vars

\* a context is inside the guarded block while another has its save() call
\* still to make
C32_Witness ==
    \E c \in Contexts : \E d \in Contexts \ {c} :
        /\ ctx[c].pc = "saving"
        /\ ~ctx[c].holds
        /\ ctx[d].pc = "locked"
        /\ ctx[d].holds

\* C33: a generate() call that returns failure (entropy failure in either
\* mode, clock failure, overflow under FAIL_FAST) leaves the 16 bytes of the
\* buffer, last_ts and last_saved_ts as they were when the call was entered.
C33_FailureLeavesNothing ==
    [][(GenerateStep /\ pc' = "idle" /\ ~last'.ok)
       => LET before == IF pc = "retry" THEN entry ELSE Snapshot
          IN  /\ _b' = before.b
              /\ _last_ts_ms' = before.last_ts
              /\ _last_saved_ts_ms' = before.last_saved]_vars

\* context c passes through the guarded block and commits an identifier
Commits(c) == ctx[c].pc = "locked" /\ ctx'[c].pc # "locked" /\ ctx'[c].produced # NoId

\* C34: on a V7 instance whose clock never went back, the identifier a
\* context commits in the guarded block is strictly greater than the
\* identifier another context's latest call committed before it, under
\* either overflow policy.
C34_CommitOrder ==
    [][\A c \in Contexts :
           (Commits(c) /\ steady /\ _version = UUID_VERSION_7 /\ _version' = UUID_VERSION_7)
               => \A d \in Contexts \ {c} :
                      ctx[d].produced # NoId
                          => BufLess(ctx[d].produced, ctx'[c].produced)]_vars

\* no context is inside a generate() call
Quiescent == \A c \in Contexts : ctx[c].pc \in {"idle", "returned", "read"}

\* C35: with an adapter configured, no step lowers the timestamp the adapter
\* holds, and whenever no generate() call is in flight that timestamp is
\* last_saved_ts.
C35_SaveOrder ==
    [][/\ ~U64Less(mock_nvs_storage', mock_nvs_storage)
       /\ (Quiescent' /\ _save') => mock_nvs_storage' = _last_saved_ts_ms']_vars

\* C36: in V7 mode with a clock that never went back, the identifier of a
\* successful generate() that follows a fromBytes() call is strictly greater
\* than the identifier generated last before the fromBytes() call.
C36_FromBytesFrame ==
    [][(/\ GenerateStep
        /\ last.op = "fromBytes"
        /\ last'.ok
        /\ steady
        /\ _version = UUID_VERSION_7
        /\ _version' = UUID_VERSION_7
        /\ prevId # NoId)
       => BufLess(prevId, _b')]_vars

\* x + y needs more than 64 bits
Carries(x, y) ==
    LET s4 == x[4] + y[4]
        s3 == x[3] + y[3] + (s4 \div Limb)
        s2 == x[2] + y[2] + (s3 \div Limb)
        s1 == x[1] + y[1] + (s2 \div Limb)
    IN  s1 >= Limb

\* now is more than UUID7_REGRESSION_THRESHOLD_MS below last_ts, in unbounded
\* integer arithmetic: the sum does not exceed 64 bits and is below last_ts
FarBelow(now_ms, last_ts) ==
    /\ ~Carries(now_ms, U64Of(UUID7_REGRESSION_THRESHOLD_MS))
    /\ U64Less(U64Add(now_ms, U64Of(UUID7_REGRESSION_THRESHOLD_MS)), last_ts)

\* C37: a V7 pass of generate() that reads a nonzero clock value takes the
\* major-regression fallback exactly when the reading is more than the
\* threshold below last_ts in unbounded integer arithmetic, and never when
\* the reading is not below last_ts.
C37_RegressionExact ==
    [][(/\ GenerateStep
        /\ _version = UUID_VERSION_7
        /\ last'.branch \notin {"rng", "clock"})
       => /\ last'.branch = "fallback" <=> FarBelow(mock_time_val, _last_ts_ms)
          /\ ~U64Less(mock_time_val, _last_ts_ms) => last'.branch # "fallback"]_vars

\* C38: an identifier that a call committed from the V7 path with version
\* nibble 4 is the call's entropy draw with the version and variant bits
\* forced, and carries no timestamp, also when another context's
\* major-regression fallback changed the version after the call drew.
C38_V4AllRandom ==
    [][\A c \in Contexts :
           (Commits(c) /\ ctx'[c].produced[6] \div 16 = 4)
               => ctx'[c].produced = StampV4(ctx[c].temp_rand)]_vars

\* C39: a UUID7_OPTIMIZE_SIZE build and a default build that get the same
\* calls, draws and clock readings, all below 2^48, behave alike: every
\* generate() returns the same result on both, a successful one leaves the
\* same identifier, and both pass the same values to save().
C39_BuildsAgree ==
    [][(last'.op = "generate" /\ calls' = calls + 1)
       => /\ size'.ok = last'.ok
          /\ last'.ok => size'.b = _b'
          /\ size'.saves = last'.saves]_vars

====
